---- MODULE Spec2Model ----
(***************************************************************************)
(* Chunk scheduler of the voxel world (src/src/world.rs): the resident     *)
(* map, the pending map, the background task pool, the deferred command    *)
(* buffer of the ECS and the Update systems that drive them; the session    *)
(* end, the visibility culler and the observer that may be missing.        *)
(*                                                                         *)
(* A coordinate is a triple <<x, y, z>> (IVec3).  An Option is a set with  *)
(* at most one element.  A HashMap is the set of its entries, one per key. *)
(* A Task handle is the record [coord, lod, n] of the values its future    *)
(* returns and a serial number; an Entity is an identifier <<coord, lod,   *)
(* k>>.  Both are chosen fresh when they are created.                      *)
(***************************************************************************)
EXTENDS Integers, FiniteSets, Sequences, TLC

\* ---------------------------------------------------------------- constants
CHUNK_SIZE == 32
MAX_HEIGHT == 256
MAX_CHUNKS_Y == MAX_HEIGHT \div CHUNK_SIZE
\* settings.rs:14: pub layers: [NoiseLayer; 5]
NUM_LAYERS == 5
\* world.rs:422: let mut height = 40
BASE_HEIGHT == 40
\* world.rs:442: height += (ridge * 20.0) as i32
RIDGE_SCALE == 20
\* world.rs:444: let max_y = height + 8
CAVE_MARGIN == 8
\* world.rs:475: noise > 0.8, in tenths
CARVE == 8
\* the width, in thousandths, of the cells on which the noise is constant
FREQ_CELL == 100
\* `if dist <= 6 { 1 } else { 2 }`
LOD_NEAR_DIST == 6
\* `dist > params.view_width + 2`
EVICT_MARGIN == 2

\* ------------------------------------------------------------------- bounds
\* view widths explored: a narrow one (long runs), the one of the first
\* end-to-end scenario, and the smallest one whose outer ring is at LOD 2
NarrowWidth == 1
MidWidth == 4
WideWidth == 7
\* ticks explored per view width
MaxTicksNarrow == 4
MaxTicksWide == 3
\* background tasks that complete during a run
MaxDone == 2
\* the observer's chunk stays within 0..Travel of the origin chunk, per axis
TravelX == 3
TravelY == 1
TravelZ == 0
\* the tasks followed to completion lie within this many chunks of the edge
\* of the first view square, on the observer's row and the ground layer
WatchBand == 1
\* quarter turns of the camera
MaxTurns == 1
\* the long walk: chunks walked east, and completions of all running tasks
WalkX == 14
WalkBursts == 1
\* presses of a noise button
MaxEdits == 1
\* PlayerCam entities: one more with every session entered
MaxCameras == 2
\* the chunk (x) in which the walking observer comes to rest at the latest
SettleX == 1
\* columns and world-Y layers followed on each side of a chunk border
SkirtX == 3
SkirtY == 2
\* columns each of two contending tasks is followed through
LockX == 1
\* the part of a chunk grid that is followed: columns, and world-Y of cells
WindowX == 2
WinLo == 44
WinHi == 52
\* noise functions, generation tasks, sessions
MaxSalt == 1
MaxColumnSalt == 4
\* columns of a build that is followed with its decorations
BuildX == 40
MaxTasks == 2
MaxGens == 1
\* lengths of the "layers" array of a settings document
MinDocLayers == 4
MaxDocLayers == 6

\* ------------------------------------------------------------------ helpers
Abs(i) == IF i < 0 THEN -i ELSE i

Max(a, b) == IF a > b THEN a ELSE b

\* (coord.x - player_chunk.x).abs().max((coord.z - player_chunk.z).abs())
HorizDist(coord, chunk) == Max(Abs(coord[1] - chunk[1]), Abs(coord[3] - chunk[3]))

Restrict(f, S) == [k \in S |-> f[k]]

\* TRUE of every finite set; evaluating it leaves S in sorted form, which makes
\* the membership tests on S binary searches
Sorted(S) == Cardinality(S) >= 0

VARIABLES
    view_width,   \* WorldParams.view_width
    player_pos,   \* Transform.translation of the PlayerCam entity (block units)
    last_chunk,   \* LastChunk.0 : Option<IVec3>
    map,          \* ChunkMap.entities : entries [coord, entity]
    pending,      \* PendingTasks.tasks : entries [coord, lod, task]
    pool,         \* AsyncComputeTaskPool: the live tasks
    finished,     \* tasks of the pool whose future has produced its value
    quiet,        \* no task has completed or was promoted since the last pass
    world,        \* ECS world: Entity -> components of the live chunk entities
    commands,     \* deferred Commands not yet applied: [spawn, despawn]
    ran,          \* Update systems that have run in the current tick
    ticks,        \* completed ticks
    done,         \* completed background tasks
    lastOp,       \* the step taken last
    dispatched,   \* coordinates handed to pool.spawn by the last scheduling pass
    cancelled,    \* task handles dropped by the last scheduling pass
    app_state,    \* State<AppState>
    observers,    \* number of entities with PlayerCam (and Camera3d)
    yaw,          \* PlayerCam.yaw, in quarter turns to the right
    frustum,      \* Frustum of the camera, as of the last PostUpdate
    file,         \* settings.json: [kind, doc]
    settings,     \* NoiseSettings resource: [layers]
    edits,        \* presses of a noise button so far
    noise,        \* NoiseResources resource
    samplers,     \* the FastNoiseLite objects behind the Arc<Mutex<..>>
    salt,         \* which noise function the library computes
    tasks,        \* the generation tasks: id -> state of build_mesh
    sampling,     \* <<task, sampler>>: the task holds the lock of the sampler
    build         \* a build_mesh followed column by column, decorations included

\* settings and generation
genVars == <<file, settings, edits, noise, samplers, salt, tasks, sampling, build>>

\* what the scheduling systems leave alone
aside == <<app_state, observers, yaw, frustum, genVars>>

vars == <<view_width, player_pos, last_chunk, map, pending, pool, finished,
          quiet, world, commands, ran, ticks, done, lastOp, dispatched, cancelled,
          aside>>

Empty == <<>>

NoCommands == [spawn |-> Empty, despawn |-> {}]

\* player_chunk: floor(player_pos / CHUNK_SIZE) per axis
player_chunk_of(pos) ==
    <<pos[1] \div CHUNK_SIZE, pos[2] \div CHUNK_SIZE, pos[3] \div CHUNK_SIZE>>

\* observed_pos with the default one chunk off the origin
observed_pos_off == IF observers = 1 THEN player_pos ELSE <<CHUNK_SIZE, 0, 0>>

\* player.single().map(|t| t.translation).unwrap_or(Vec3::ZERO)
observed_pos == IF observers = 1 THEN player_pos ELSE <<0, 0, 0>>

\* required_lod with the near ring one chunk short (`dist < 6`)
required_lod_short(x, z) == IF Max(Abs(x), Abs(z)) < LOD_NEAR_DIST THEN 1 ELSE 2

\* let dist = x.abs().max(z.abs()); if dist <= 6 { 1 } else { 2 }
required_lod(x, z) == IF Max(Abs(x), Abs(z)) <= LOD_NEAR_DIST THEN 1 ELSE 2

\* required with half-open ranges (`-view_width..view_width`)
required_half_open(chunk, vw) ==
    {[coord |-> <<chunk[1] + x, y, chunk[3] + z>>, lod |-> required_lod(x, z)] :
        x \in (-vw)..(vw - 1), z \in (-vw)..(vw - 1), y \in 0..(MAX_CHUNKS_Y - 1)}

\* the three nested loops: each visited coordinate with its required_lod
required(chunk, vw) ==
    {[coord |-> <<chunk[1] + x, y, chunk[3] + z>>, lod |-> required_lod(x, z)] :
        x \in (-vw)..vw, z \in (-vw)..vw, y \in 0..(MAX_CHUNKS_Y - 1)}

\* Commands::spawn reserves a fresh Entity at once; taken are the entities
\* that are alive or reserved
fresh_entity(taken, coord, lod) ==
    LET k == CHOOSE n \in 0..Cardinality(taken) :
                /\ <<coord, lod, n>> \notin taken
                /\ \A j \in 0..(n - 1) : <<coord, lod, j>> \in taken
    IN <<coord, lod, k>>

\* the deferred buffers applied to the world: spawns, then despawns
apply_commands(w, cmds) ==
    [e \in (DOMAIN w \cup DOMAIN cmds.spawn) \ cmds.despawn |->
        IF e \in DOMAIN cmds.spawn THEN cmds.spawn[e] ELSE w[e]]

\* Transform::from_xyz(c.x * CHUNK_SIZE, c.y * CHUNK_SIZE, c.z * CHUNK_SIZE)
translation_of(c) == <<c[1] * CHUNK_SIZE, c[2] * CHUNK_SIZE, c[3] * CHUNK_SIZE>>

\* the Frustum the camera has at a position and a yaw: the half space in
\* front of the camera, which looks along -z at yaw 0 and along +x after a
\* quarter turn to the right
frustum_of(pos, turns) == [origin |-> pos, facing |-> turns % 4]

\* ---------------------------------------------------------------- settings
\* a NoiseLayer: seed, frequency in thousandths, amplitude in halves
Layer(seed, frequency, amplitude) ==
    [seed |-> seed, frequency |-> frequency, amplitude |-> amplitude]

\* the layers written out in NoiseSettings::default
BuiltIn ==
    [layers |-> <<Layer(0, 10, 20), Layer(1, 30, 10), Layer(2, 80, 4),
                  Layer(4, 160, 2), Layer(5, 320, 1)>>]

\* an entry of the "layers" array of a document: the fields of a NoiseLayer,
\* and whether each of them is there with a number of its type
Entry(seed, frequency, amplitude, typed) ==
    [seed |-> seed, frequency |-> frequency, amplitude |-> amplitude,
     typed |-> typed]

\* a document: whether the text is JSON, and the "layers" array of its object
Doc(layers) == [json |-> TRUE, layers |-> layers]

\* from_str that takes the first NUM_LAYERS entries of a longer array
from_str_prefix(doc) ==
    IF /\ doc.json
       /\ Len(doc.layers) >= NUM_LAYERS
       /\ \A i \in 1..NUM_LAYERS : doc.layers[i].typed
    THEN {[layers |-> [i \in 1..NUM_LAYERS |->
                Layer(doc.layers[i].seed, doc.layers[i].frequency,
                      doc.layers[i].amplitude)]]}
    ELSE {}

\* serde_json::from_str::<NoiseSettings>: Ok for an object whose "layers" is
\* an array of exactly NUM_LAYERS well typed entries
from_str(doc) ==
    IF /\ doc.json
       /\ Len(doc.layers) = NUM_LAYERS
       /\ \A i \in 1..NUM_LAYERS : doc.layers[i].typed
    THEN {[layers |-> [i \in 1..NUM_LAYERS |->
                Layer(doc.layers[i].seed, doc.layers[i].frequency,
                      doc.layers[i].amplitude)]]}
    ELSE {}

\* fs::read_to_string("settings.json")
read_to_string(f) == IF f.kind = "text" THEN {f.doc} ELSE {}

\* NoiseSettings::default
NoiseSettings_default(f) ==
    IF read_to_string(f) # {} /\ from_str(f.doc) # {}
    THEN CHOOSE cfg \in from_str(f.doc) : TRUE
    ELSE BuiltIn

\* serde_json::to_string_pretty(self)
to_string_pretty(cfg) ==
    [json |-> TRUE, layers |-> [i \in 1..Len(cfg.layers) |->
        Entry(cfg.layers[i].seed, cfg.layers[i].frequency,
              cfg.layers[i].amplitude, TRUE)]]

\* a text that is not JSON
Garbage == [json |-> FALSE, layers |-> <<>>]

\* no settings.json
NoFile == [kind |-> "missing", doc |-> Garbage]

\* the resource before init_resource
Unloaded == [layers |-> <<>>]

\* --------------------------------------------------------- NoiseResources
\* `as i32` of the quotient a / b: towards zero
Trunc(a, b) == IF a >= 0 THEN a \div b ELSE -((-a) \div b)

\* the greatest i32
I32_MAX == 2147483647

\* (x * a / d) as i32 for a factor x of a few units: the quotient towards
\* zero, computed without a product beyond I32_MAX
scale(x, a, d) ==
    LET q == (Abs(a) \div d) * Abs(x) + ((Abs(a) % d) * Abs(x)) \div d
    IN IF (x < 0) # (a < 0) THEN -q ELSE q

\* `+=` on i32 with overflow checks off: a sum beyond the i32 wraps by 2^32;
\* with the checks on the task panics there
add_i32(a, b) ==
    IF b > 0 /\ a > I32_MAX - b THEN (a - I32_MAX - 1) + (b - I32_MAX - 1)
    ELSE IF b < 0 /\ a < (-I32_MAX - 1) - b THEN (a + I32_MAX + 1) + (b + I32_MAX + 1)
    ELSE a + b

Clamp(v, lo, hi) == IF v < lo THEN lo ELSE IF v > hi THEN hi ELSE v

\* the samplers of a NoiseResources, by field; a layer by its index
SamplerNames ==
    {<<"layer", i>> : i \in 1..NUM_LAYERS} \cup
    {<<"cave", 0>>, <<"cliff", 0>>, <<"boulder_density", 0>>,
     <<"boulder_scatter", 0>>, <<"boulder_shape", 0>>, <<"tree_density", 0>>,
     <<"tree_scatter", 0>>}

\* with_seed and set_frequency of from_settings; frequencies in thousandths
sampler_cfg(layers, name) ==
    CASE name[1] = "layer" ->
            [seed |-> layers[name[2]].seed, frequency |-> layers[name[2]].frequency]
      [] name[1] = "cave" -> [seed |-> 3, frequency |-> 50]
      [] name[1] = "cliff" -> [seed |-> 99, frequency |-> 10]
      [] name[1] = "boulder_density" -> [seed |-> 1337, frequency |-> 3]
      [] name[1] = "boulder_scatter" -> [seed |-> 1338, frequency |-> 80]
      [] name[1] = "boulder_shape" -> [seed |-> 1339, frequency |-> 300]
      [] name[1] = "tree_density" -> [seed |-> 4242, frequency |-> 5]
      [] OTHER -> [seed |-> 4243, frequency |-> 100]

\* the Arc<Mutex<FastNoiseLite>> of generation g of the resource
sid(g, name) == <<g, name[1], name[2]>>

\* the objects from_settings allocates: configuration, and calls served
sampler_objects(g, cfg) ==
    [id \in {sid(g, name) : name \in SamplerNames} |->
        LET c == sampler_cfg(cfg.layers, <<id[2], id[3]>>)
        IN [seed |-> c.seed, frequency |-> c.frequency, calls |-> 0]]

\* NoiseResources::from_settings: the handles and the amplitudes, in halves
from_settings(g, cfg) ==
    [gen |-> g, amps |-> [i \in 1..NUM_LAYERS |-> cfg.layers[i].amplitude]]

\* the values a sampler returns, in tenths
NoiseVals == <<-9, -5, 0, 5, 9>>

\* a sampler whose value depends on the calls it has served
noise_value_counting(s, h, slt) ==
    NoiseVals[((s.seed + slt + h + s.calls) % Len(NoiseVals)) + 1]

\* the noise function of the library: a fixed function of the sampler's
\* configuration and of the cell of the scaled point, one per salt
noise_value(s, h, slt) ==
    NoiseVals[((s.seed + slt + h) % Len(NoiseVals)) + 1]

\* the cell of a coordinate scaled by the frequency
scaled(w, s) == (w * s.frequency) \div FREQ_CELL

\* on the lattice of the scaled coordinates gradient noise is 0
on_lattice(w, s) == (w * s.frequency) % 1000 = 0

\* get_noise_2d(wx, wz)
get_noise_2d(s, wx, wz, slt) ==
    IF on_lattice(wx, s) /\ on_lattice(wz, s) THEN 0
    ELSE noise_value(s, 3 * scaled(wx, s) + 5 * scaled(wz, s), slt)

\* get_noise_3d(wx, wy, wz)
get_noise_3d(s, wx, wy, wz, slt) ==
    IF on_lattice(wx, s) /\ on_lattice(wy, s) /\ on_lattice(wz, s) THEN 0
    ELSE noise_value(s, 3 * scaled(wx, s) + 7 * scaled(wy, s) + 5 * scaled(wz, s), slt)

\* -------------------------------------------------------------- build_mesh
\* size = N - 2, with N = CHUNK_SIZE + 3 at LOD 1 and CHUNK_SIZE / 2 + 3 at LOD 2
grid_size(lod) == IF lod = 2 THEN CHUNK_SIZE \div 2 + 1 ELSE CHUNK_SIZE + 1

\* generate_chunk_mesh: any other LOD is built as LOD 1
effective_lod(lod) == IF lod = 2 THEN 2 ELSE 1

\* wx, wy, wz of a grid index
world_of(c, lod, g) == c * CHUNK_SIZE + (g - 1) * lod

\* <<x, z>> of the n-th column of
\* `for z in 0..=size + 1 { for x in 0..=size + 1`
grid_column(lod, n) ==
    <<(n - 1) % (grid_size(lod) + 2), (n - 1) \div (grid_size(lod) + 2)>>

\* [x, y, z] of the cell y of the n-th column
grid_cell(lod, n, y) == <<grid_column(lod, n)[1], y, grid_column(lod, n)[2]>>

\* the cells of a column that are followed, of `for y in 1..=size + 1`:
\* world-Y in the window win
window_ys(coord, lod, win) ==
    {y \in 1..(grid_size(lod) + 1) :
        world_of(coord[2], lod, y) \in win[1]..win[2]}

\* a task at the start of column col of the window
start_column(t, col) ==
    IF col > t.cols
    THEN [t EXCEPT !.pc = "done", !.col = col]
    ELSE [t EXCEPT !.pc = "layer", !.col = col, !.i = 1, !.height = BASE_HEIGHT]

\* the task as pool.spawn creates it: coord, required_lod and the clone of
\* the resource; cfg0 records the configuration the resource was built from.
\* The task is followed through the columns first, first + stride, .. up to
\* cols, and in each through the cells of world-Y in win
new_generation(coord, lod, res, cfg) ==
    start_column([coord |-> coord, lod |-> effective_lod(lod), res |-> res,
                  cfg0 |-> cfg, col |-> 1, pc |-> "layer", i |-> 1,
                  height |-> BASE_HEIGHT, y |-> 0, o |-> 0, voxels |-> Empty,
                  heights |-> Empty, first |-> 1, stride |-> 1,
                  cols |-> WindowX, win |-> <<WinLo, WinHi>>], 1)

\* the amplitude read from the resource as it is now, not from the clone
task_amp_live(t, i) == (CHOOSE r \in noise : TRUE).amps[i]

\* resources.layers[i].1 of the task's clone
task_amp(t, i) == t.res.amps[i]

\* a terrain of stone only
terrain_block_stone(sample_y, height) == "Stone"

\* GRASS at the height, DIRT one below, STONE below that
terrain_block(sample_y, height) ==
    IF sample_y = height THEN "Grass"
    ELSE IF sample_y = height - 1 THEN "Dirt" ELSE "Stone"

\* voxels[idx] of a cell: the block written last, EMPTY where none was
block_at(t, cell) ==
    IF cell \in DOMAIN t.voxels THEN t.voxels[cell] ELSE "Empty"

RECURSIVE seek(_, _, _)
\* one turn of the loops over y and over the offsets
seek_at(t, y, o) ==
    LET wy == world_of(t.coord[2], t.lod, y)
        max_y == t.height + CAVE_MARGIN
    IN  IF y \notin window_ys(t.coord, t.lod, t.win)
        THEN start_column(t, t.col + t.stride)
        ELSE IF wy > max_y \/ o < 0 THEN seek(t, y + 1, t.lod - 1)
        ELSE IF wy + o > max_y THEN seek(t, y, o - 1)
        ELSE [t EXCEPT !.pc = "cave", !.y = y, !.o = o]

\* the loops over y and over the offsets, up to the next cave sample; the
\* arguments are evaluated once for every turn
seek(t, y, o) ==
    CHOOSE r \in {seek_at(tt, yy, oo) : tt \in {t}, yy \in {y}, oo \in {o}} : TRUE

\* the first cell of the window, or one below it when the window is empty
first_y(coord, lod, win) ==
    LET ys == window_ys(coord, lod, win)
    IN IF ys = {} THEN 0 ELSE CHOOSE y \in ys : \A z \in ys : y <= z

\* the sampler and the point of the sample the task takes next
request(t) ==
    LET wx == world_of(t.coord[1], t.lod, grid_column(t.lod, t.col)[1])
        wz == world_of(t.coord[3], t.lod, grid_column(t.lod, t.col)[2])
    IN CASE t.pc = "layer" -> [name |-> <<"layer", t.i>>, dim |-> 2, p |-> <<wx, 0, wz>>]
         [] t.pc = "cliff" -> [name |-> <<"cliff", 0>>, dim |-> 2, p |-> <<wx, 0, wz>>]
         [] OTHER -> [name |-> <<"cave", 0>>, dim |-> 3,
                      p |-> <<wx, world_of(t.coord[2], t.lod, t.y) + t.o, wz>>]

\* the task goes on with the value n of its sample
absorb(t, n) ==
    CASE t.pc = "layer" ->
            [t EXCEPT !.height = add_i32(@,
                                    IF t.i = 1
                                    THEN scale(n + 10, task_amp(t, 1), 40)
                                    ELSE scale(n, task_amp(t, t.i), 20)),
                      !.i = @ + 1,
                      !.pc = IF t.i = NUM_LAYERS THEN "cliff" ELSE "layer"]
      [] t.pc = "cliff" ->
            LET height == Clamp(add_i32(t.height, Trunc(Abs(n) * RIDGE_SCALE, 10)),
                                1, MAX_HEIGHT - 1)
            IN seek([t EXCEPT !.height = height,
                              !.heights = Append(@, height)],
                    first_y(t.coord, t.lod, t.win), t.lod - 1)
      [] OTHER ->
            LET sample_y == world_of(t.coord[2], t.lod, t.y) + t.o
                cell == grid_cell(t.lod, t.col, t.y)
            IN  IF sample_y <= t.height
                THEN IF n > CARVE
                     THEN seek(t, t.y, t.o - 1)
                     ELSE seek([t EXCEPT !.voxels =
                                   (cell :> terrain_block(sample_y, t.height)) @@ @],
                               t.y + 1, t.lod - 1)
                ELSE IF n < -CARVE
                     THEN seek(t, t.y + 1, t.lod - 1)
                     ELSE seek(t, t.y, t.o - 1)

\* the value a sampler object returns for a request
sample(s, r, slt) ==
    IF r.dim = 2 THEN get_noise_2d(s, r.p[1], r.p[3], slt)
    ELSE get_noise_3d(s, r.p[1], r.p[2], r.p[3], slt)

RECURSIVE run(_, _, _)
\* build_mesh run alone on samplers of its own
run(t, cfg, slt) ==
    IF t.pc = "done" THEN t
    ELSE LET r == request(t)
             c == sampler_cfg(cfg.layers, r.name)
         IN run(absorb(t, sample([seed |-> c.seed, frequency |-> c.frequency,
                                  calls |-> 0], r, slt)), cfg, slt)

\* the voxels generate_chunk_mesh(coord, lod, noise) fills in the window
generate_chunk_mesh(coord, lod, cfg, slt) ==
    run(new_generation(coord, lod, from_settings(0, cfg), cfg), cfg, slt).voxels

\* -------------------------------------------------------------------- Init
\* setup_game: camera at (0, 2, 5); resources default-initialised
InitPos == <<0, 2, 5>>

Resources ==
    /\ view_width \in {NarrowWidth, MidWidth, WideWidth}
    /\ player_pos = InitPos
    /\ last_chunk = {}
    /\ map = {}
    /\ pending = {}
    /\ pool = {}
    /\ finished = {}
    /\ quiet = TRUE
    /\ world = Empty
    /\ commands = NoCommands
    /\ ran = {}
    /\ ticks = 0
    /\ done = 0
    /\ lastOp = "init"
    /\ dispatched = {}
    /\ cancelled = {}
    /\ app_state = "Playing"
    /\ yaw = 0
    /\ frustum = frustum_of(InitPos, 0)

\* no build_mesh is followed
NoBuild == <<>>

\* no generation task is running
Idle ==
    /\ salt = 0
    /\ tasks = Empty
    /\ sampling = {}
    /\ build = NoBuild

\* setup_noise_resources has run on entering the session
Entered ==
    /\ noise = {from_settings(0, settings)}
    /\ samplers = sampler_objects(0, settings)

\* the play session entered with the built-in settings
Started ==
    /\ Resources
    /\ file = NoFile
    /\ settings = NoiseSettings_default(NoFile)
    /\ edits = 0
    /\ Entered
    /\ Idle

\* setup_game has spawned the one PlayerCam
Init == Started /\ observers = 1

\* the wider views are explored for fewer ticks
MaxTicks == IF view_width = NarrowWidth THEN MaxTicksNarrow ELSE MaxTicksWide

Travel == <<TravelX, TravelY, TravelZ>>

\* --------------------------------------------------- spawn_required_chunks
\* to_remove without the margin (`dist > params.view_width`)
to_remove_no_margin(chunk) ==
    {m \in map : HorizDist(m.coord, chunk) > view_width}

\* first loop: the resident entries beyond view_width + 2
to_remove(chunk) ==
    {m \in map : HorizDist(m.coord, chunk) > view_width + EVICT_MARGIN}

\* `if let Some(&entity) = map.entities.get(&coord)`, the Query finds its Chunk
\* and `chunk.lod != required_lod`; map1 is the map left by the first loop
resident_stale(map1, req, reqCoords) ==
    {m \in map1 : /\ m.coord \in reqCoords
                  /\ m.entity \in DOMAIN world
                  /\ [coord |-> m.coord, lod |-> world[m.entity].lod] \notin req}

\* despawned with the despawn of the second loop left out
despawned_far_only(far, stale) == {m.entity : m \in far}

\* commands.entity(..).despawn() of both loops
despawned(far, stale) == {m.entity : m \in far \cup stale}

\* map_after with the remove of the second loop left out
map_after_keep_stale(far, stale) == map \ far

\* map.entities.remove(&coord) of both loops
map_after(far, stale) == (map \ far) \ stale

\* to_dispatch without the `continue` of the resident coordinates
to_dispatch_resident(req, keptCoords, pendingLods) ==
    {r \in req : r \notin pendingLods}

\* the visited coordinates that reach the pending check: not resident, or
\* resident at another lod; the others `continue`
\* then `if *lod == required_lod { continue; }`
to_dispatch(req, keptCoords, pendingLods) ==
    {r \in req : r.coord \notin keptCoords /\ r \notin pendingLods}

\* pending.tasks.remove(&coord): the entries replaced by a new request
superseded(needCoords) == {p \in pending : p.coord \in needCoords}

\* dropped with the handles detached instead of dropped: the tasks run on
dropped_detached(entries) == {}

\* the handles dropped with the removed entries: dropping a Task cancels it
dropped(entries) == {p.task : p \in entries}

\* new_task whose closure returns LOD 1 whatever was requested
new_task_lod1(r) ==
    LET k == CHOOSE n \in 0..Cardinality(pool) :
                /\ [coord |-> r.coord, lod |-> 1, n |-> n] \notin pool
                /\ \A j \in 0..(n - 1) : [coord |-> r.coord, lod |-> 1, n |-> j] \in pool
    IN [coord |-> r.coord, lod |-> 1, n |-> k]

\* pool.spawn(async move { (coord, required_lod, mesh) })
new_task(r) ==
    LET k == CHOOSE n \in 0..Cardinality(pool) :
                /\ [coord |-> r.coord, lod |-> r.lod, n |-> n] \notin pool
                /\ \A j \in 0..(n - 1) : [coord |-> r.coord, lod |-> r.lod, n |-> j] \in pool
    IN [coord |-> r.coord, lod |-> r.lod, n |-> k]

\* pending.tasks.insert(coord, (required_lod, task))
pending_entry(r) == [coord |-> r.coord, lod |-> r.lod, task |-> new_task(r)]

\* a test that never finds the chunk unchanged
same_chunk_never(chunk) == FALSE

\* last_chunk.0.map_or(false, |c| c == player_chunk)
same_chunk(chunk) == last_chunk = {chunk}

spawn_required_chunks ==
    /\ app_state = "Playing"
    /\ UNCHANGED aside
    /\ "spawn" \notin ran
    /\ ticks < MaxTicks
    /\ ran' = ran \cup {"spawn"}
    /\ \E chunk \in {player_chunk_of(observed_pos)} :
       IF same_chunk(chunk)
       THEN /\ lastOp' = "skip"
            /\ dispatched' = {}
            /\ cancelled' = {}
            /\ UNCHANGED <<quiet, view_width, player_pos, last_chunk, map, pending, pool,
                           finished, world, commands, ticks, done>>
       ELSE \E far \in {to_remove(chunk)} :
            \E req \in {required(chunk, view_width)} :
            \E reqCoords \in {{r.coord : r \in req}} :
            \E stale \in {resident_stale(map \ far, req, reqCoords)} :
            \E keptCoords \in {{m.coord : m \in (map \ far) \ stale}} :
            \E pendingLods \in {{[coord |-> p.coord, lod |-> p.lod] : p \in pending}} :
            \E need \in {IF Sorted(pendingLods)
                           THEN to_dispatch(req, keptCoords, pendingLods) ELSE {}} :
            \E needCoords \in {{r.coord : r \in need}} :
            \E old \in {IF Sorted(needCoords) THEN superseded(needCoords) ELSE {}} :
            \E gone \in {dropped(old)} :
            \E new \in {{pending_entry(r) : r \in need}} :
                /\ Sorted(old) /\ Sorted(gone)
                /\ map' = map_after(far, stale)
                /\ commands' = [commands EXCEPT !.despawn = @ \cup despawned(far, stale)]
                /\ pending' = (pending \ old) \cup new
                /\ pool' = (pool \ gone) \cup {p.task : p \in new}
                /\ finished' = finished \ gone
                /\ last_chunk' = {chunk}
                /\ lastOp' = "pass"
                /\ dispatched' = needCoords
                /\ cancelled' = gone
                /\ quiet' = TRUE
                /\ UNCHANGED <<view_width, player_pos, world, ticks, done>>

\* ------------------------------------------------------ process_chunk_tasks
\* the entries whose poll_once yields Some((c, lod, mesh))
ready == {p \in pending : p.task \in finished}

\* commands.spawn((.., Chunk { coord: c, lod })).id()
promoted(fin, taken) ==
    {[key |-> p.coord, coord |-> p.task.coord, lod |-> p.task.lod,
      entity |-> fresh_entity(taken, p.coord, p.task.lod)] : p \in fin}

\* bundle with the Transform placed at the key of the entry, not at the
\* coordinate the task returns
bundle_at_key(n) ==
    [coord |-> n.coord, lod |-> n.lod,
     translation |-> <<n.key[1], n.key[2], n.key[3]>>,
     visibility |-> "Inherited"]

\* the components of the spawned entity: Transform, Visibility::default(), Chunk
bundle(n) ==
    [coord |-> n.coord, lod |-> n.lod,
     translation |-> translation_of(n.coord),
     visibility |-> "Inherited"]

\* map.entities.insert(c, entity): an entry of the same key is replaced
map_insert(m, new) ==
    {e \in m : e.coord \notin {n.coord : n \in new}}
        \cup {[coord |-> n.coord, entity |-> n.entity] : n \in new}

process_chunk_tasks ==
    /\ app_state = "Playing"
    /\ UNCHANGED aside
    /\ "process" \notin ran
    /\ ticks < MaxTicks
    /\ ran' = ran \cup {"process"}
    /\ \E fin \in {ready} :
       \E taken \in {DOMAIN world \cup DOMAIN commands.spawn} :
       \E new \in {IF Sorted(taken) THEN promoted(fin, taken) ELSE {}} :
       \E spawned \in {{n.entity : n \in new}} :
           /\ commands' = [commands EXCEPT !.spawn =
                [e \in spawned \cup DOMAIN @ |->
                    IF e \in spawned
                    THEN CHOOSE b \in {bundle(n) : n \in {m \in new : m.entity = e}} : TRUE
                    ELSE @[e]]]
           /\ map' = map_insert(map, new)
           /\ pending' = pending \ fin
           /\ pool' = pool \ dropped(fin)
           /\ finished' = finished \ dropped(fin)
           /\ quiet' = (quiet /\ fin = {})
    /\ lastOp' = "poll"
    /\ UNCHANGED <<view_width, player_pos, last_chunk, world, ticks, done, dispatched, cancelled>>

\* ------------------------------------------------------------ the schedule
Systems == {"spawn", "process"}

\* a sync point between the two systems: the buffers are applied
apply_deferred ==
    /\ app_state = "Playing"
    /\ UNCHANGED aside
    /\ ran # {} /\ Systems \ ran # {}
    /\ commands # NoCommands
    /\ world' = apply_commands(world, commands)
    /\ commands' = NoCommands
    /\ lastOp' = "sync"
    /\ UNCHANGED <<quiet, view_width, player_pos, last_chunk, map, pending, pool,
                   finished, ran, ticks, done, dispatched, cancelled>>

\* end of the Update schedule: all deferred buffers are applied
end_of_schedule ==
    /\ app_state = "Playing"
    \* PostUpdate: the Frustum follows the camera
    /\ frustum' = frustum_of(player_pos, yaw)
    /\ UNCHANGED <<app_state, observers, yaw, genVars>>
    /\ Systems \subseteq ran
    /\ world' = apply_commands(world, commands)
    /\ commands' = NoCommands
    /\ ran' = {}
    /\ lastOp' = "end"
    /\ UNCHANGED <<quiet, view_width, player_pos, last_chunk, map, pending, pool,
                   finished, done, dispatched, cancelled>>

\* a frame ends and is counted
end_of_update == end_of_schedule /\ ticks' = ticks + 1

\* ------------------------------------------------------ frustum_cull_chunks
\* frustum.intersects_obb(&aabb, &world_from_local, ..) for the box of
\* CHUNK_SIZE at a translation
intersects(f, t) ==
    CASE f.facing = 0 -> t[3] <= f.origin[3]
      [] f.facing = 1 -> t[1] + CHUNK_SIZE >= f.origin[1]
      [] f.facing = 2 -> t[3] + CHUNK_SIZE >= f.origin[3]
      [] OTHER        -> t[1] <= f.origin[1]

\* culled that flips the flag of a chunk outside the frustum
culled_flip(f, w) ==
    [e \in DOMAIN w |->
        [w[e] EXCEPT !.visibility =
            IF intersects(f, w[e].translation) THEN "Visible"
            ELSE IF @ = "Hidden" THEN "Visible" ELSE "Hidden"]]

\* *vis = if visible { Visibility::Visible } else { Visibility::Hidden }
culled(f, w) ==
    [e \in DOMAIN w |->
        [w[e] EXCEPT !.visibility =
            IF intersects(f, w[e].translation) THEN "Visible" ELSE "Hidden"]]

frustum_cull_chunks ==
    /\ app_state = "Playing"
    /\ "cull" \notin ran
    /\ ticks < MaxTicks
    /\ ran' = ran \cup {"cull"}
    \* cam.single() fails unless there is exactly one camera
    /\ world' = IF observers = 1 THEN culled(frustum, world) ELSE world
    /\ lastOp' = "cull"
    /\ UNCHANGED <<quiet, view_width, player_pos, last_chunk, map, pending, pool,
                   finished, commands, ticks, done, dispatched, cancelled, aside>>

\* ------------------------------------------------------------ cleanup_chunks
\* the query without the entities whose Visibility is not Visible
chunk_entities_visible(w) == {e \in DOMAIN w : w[e].visibility = "Visible"}

\* Query<Entity, With<Chunk>>: every spawned chunk entity
chunk_entities(w) == DOMAIN w

\* OnExit(AppState::Playing), run by the state transition before Update
cleanup_chunks ==
    /\ app_state = "Playing"
    /\ ran = {}
    /\ app_state' = "Menu"
    /\ commands' = [commands EXCEPT !.despawn = @ \cup chunk_entities(world)]
    /\ map' = {}
    /\ pending' = {}
    /\ pool' = pool \ dropped(pending)
    /\ finished' = finished \ dropped(pending)
    /\ cancelled' = dropped(pending)
    /\ dispatched' = {}
    /\ lastOp' = "exit"
    /\ UNCHANGED <<quiet, view_width, player_pos, last_chunk, world, ran, ticks, done,
                   observers, yaw, frustum, genVars>>

\* end of the OnExit schedule: its deferred buffers are applied
end_of_transition ==
    /\ app_state = "Menu"
    /\ commands # NoCommands
    /\ world' = apply_commands(world, commands)
    /\ commands' = NoCommands
    /\ lastOp' = "left"
    /\ UNCHANGED <<quiet, view_width, player_pos, last_chunk, map, pending, pool,
                   finished, ran, ticks, done, dispatched, cancelled, aside>>

\* ------------------------------------------------- OnEnter(AppState::Playing)
\* an entry that leaves the recorded chunk as it is
reset_player_chunk_kept == last_chunk

\* reset_player_chunk: last_chunk.0 = None
reset_player_chunk == {}

\* the Start button pressed again after a session was left: the OnEnter
\* schedule runs setup_noise_resources, reset_player_chunk and setup_game,
\* which spawns one more PlayerCam; the session counts its ticks from 0
enter_playing ==
    /\ app_state = "Menu"
    /\ commands = NoCommands
    /\ observers < MaxCameras
    /\ app_state' = "Playing"
    /\ last_chunk' = reset_player_chunk
    /\ observers' = observers + 1
    /\ ticks' = 0
    /\ \E g \in {Cardinality({id[1] : id \in DOMAIN samplers})} :
        /\ noise' = {from_settings(g, settings)}
        /\ samplers' = sampler_objects(g, settings) @@ samplers
    /\ lastOp' = "enter"
    /\ UNCHANGED <<quiet, view_width, player_pos, map, pending, pool, finished, world,
                   commands, ran, done, dispatched, cancelled, yaw, frustum,
                   file, settings, edits, salt, tasks, sampling, build>>

\* ------------------------------------------------------------ environment
\* keyboard_move, accumulated until the observer is one chunk further
Moves == {<<CHUNK_SIZE, 0, 0>>, <<-CHUNK_SIZE, 0, 0>>,
          <<0, CHUNK_SIZE, 0>>, <<0, -CHUNK_SIZE, 0>>,
          <<0, 0, CHUNK_SIZE>>, <<0, 0, -CHUNK_SIZE>>}

keyboard_move ==
    /\ app_state = "Playing"
    /\ observers = 1
    /\ UNCHANGED aside
    /\ ran = {}
    \* a frame moves the observer by less than a chunk: the pass of the last
    \* frame has seen the chunk the observer leaves
    /\ last_chunk = {player_chunk_of(player_pos)}
    /\ ticks < MaxTicks
    /\ \E d \in Moves :
        LET p == <<player_pos[1] + d[1], player_pos[2] + d[2], player_pos[3] + d[3]>>
            c == player_chunk_of(p)
        IN  /\ \A i \in 1..3 : c[i] \in 0..Travel[i]
            /\ player_pos' = p
    /\ lastOp' = "move"
    /\ UNCHANGED <<quiet, view_width, last_chunk, map, pending, pool, finished, world,
                   commands, ran, ticks, done, dispatched, cancelled>>

\* mouse_look: the camera turns a quarter to the right
mouse_look ==
    /\ app_state = "Playing"
    /\ ran = {}
    /\ observers = 1
    /\ yaw < MaxTurns
    /\ yaw' = yaw + 1
    /\ lastOp' = "look"
    /\ UNCHANGED <<quiet, view_width, player_pos, last_chunk, map, pending, pool,
                   finished, world, commands, ran, ticks, done, dispatched,
                   cancelled, app_state, observers, frustum, genVars>>

\* the background tasks followed to completion
Watched(t) ==
    /\ t.coord[2] = 0
    /\ t.coord[3] = 0
    /\ Abs(Abs(t.coord[1]) - view_width) <= WatchBand

\* a background task runs to completion
task_finish ==
    /\ app_state = "Playing"
    /\ UNCHANGED aside
    /\ done < MaxDone
    /\ "process" \notin ran
    /\ \E t \in pool \ finished :
        /\ Watched(t)
        /\ finished' = finished \cup {t}
    /\ done' = done + 1
    /\ quiet' = FALSE
    /\ lastOp' = "finish"
    /\ UNCHANGED <<view_width, player_pos, last_chunk, map, pending, pool, world,
                   commands, ran, ticks, dispatched, cancelled>>

Next ==
    \/ spawn_required_chunks
    \/ process_chunk_tasks
    \/ apply_deferred
    \/ end_of_update
    \/ keyboard_move
    \/ task_finish
    \/ cleanup_chunks
    \/ end_of_transition

Spec == Init /\ [][Next]_vars

\* the world entered without an observer entity
InitNoObserver == Started /\ observers = 0

NextNoObserver ==
    \/ spawn_required_chunks
    \/ process_chunk_tasks
    \/ apply_deferred
    \/ end_of_update
    \/ task_finish
    \/ cleanup_chunks
    \/ end_of_transition

SpecNoObserver == InitNoObserver /\ [][NextNoObserver]_vars

\* sessions left and entered again, in the narrow view
InitSession == Init /\ view_width = NarrowWidth

NextSession ==
    \/ Next
    \/ enter_playing

SpecSession == InitSession /\ [][NextSession]_vars

\* ------------------------------------------------------------ the settings
\* the resources and entities of the scheduler
schedVars == <<view_width, player_pos, last_chunk, map, pending, pool, finished,
               quiet, world, commands, ran, ticks, done, lastOp, dispatched, cancelled,
               app_state, observers, yaw, frustum>>

\* init_resource::<NoiseSettings>(): the Default impl
init_resource ==
    /\ settings = Unloaded
    /\ settings' = NoiseSettings_default(file)
    /\ UNCHANGED <<schedVars, file, edits, noise, samplers, salt, build, tasks, sampling>>

\* the frequency buttons: +-0.01
Deltas == {-10, 10}

\* the amplitude buttons: +-1.0
AmpDeltas == {-2, 2}

noise_actions ==
    /\ settings # Unloaded
    /\ edits < MaxEdits
    /\ edits' = edits + 1
    /\ \E i \in 1..NUM_LAYERS :
        \/ \E d \in AmpDeltas :
            settings' = [settings EXCEPT !.layers[i].amplitude = Max(@ + d, 0)]
        \/ \E d \in Deltas :
            settings' = [settings EXCEPT !.layers[i].frequency = Max(@ + d, 0)]
    /\ UNCHANGED <<schedVars, file, noise, samplers, salt, build, tasks, sampling>>

\* save_settings_on_l: NoiseSettings::save, a failed write is ignored
save_settings_on_l ==
    /\ settings # Unloaded
    /\ \/ file' = [kind |-> "text", doc |-> to_string_pretty(settings)]
       \/ file' = file
    /\ UNCHANGED <<schedVars, settings, edits, noise, samplers, salt, build, tasks, sampling>>

\* the entries a document may hold: a built-in layer, a flat layer, and an
\* entry with a field missing or of another type
Entries == {Entry(0, 10, 20, TRUE), Entry(7, 0, 0, TRUE), Entry(0, 10, 20, FALSE)}

Docs ==
    {Garbage} \cup
    {Doc(l) : l \in UNION {[1..n -> Entries] : n \in MinDocLayers..MaxDocLayers}}

Files ==
    {NoFile, [kind |-> "unreadable", doc |-> Garbage]}
        \cup {[kind |-> "text", doc |-> d] : d \in Docs}

\* the application starts with any settings.json
InitSettings ==
    /\ Resources
    /\ observers = 1
    /\ file \in Files
    /\ settings = Unloaded
    /\ edits = 0
    /\ noise = {}
    /\ samplers = Empty
    /\ Idle

NextSettings ==
    \/ init_resource
    \/ noise_actions
    \/ save_settings_on_l

SpecSettings == InitSettings /\ [][NextSettings]_vars

\* ---------------------------------------------------------- the long walk
\* keyboard_move with one key held: the observer walks east, a chunk at a time
keyboard_walk ==
    /\ app_state = "Playing"
    /\ observers = 1
    /\ ran = {}
    /\ last_chunk = {player_chunk_of(player_pos)}
    /\ player_chunk_of(player_pos)[1] < WalkX
    /\ player_pos' = <<player_pos[1] + CHUNK_SIZE, player_pos[2], player_pos[3]>>
    /\ lastOp' = "move"
    /\ UNCHANGED <<quiet, view_width, last_chunk, map, pending, pool, finished, world,
                   commands, ran, ticks, done, dispatched, cancelled, aside>>

\* the background tasks that are running all complete
tasks_complete ==
    /\ app_state = "Playing"
    /\ done < WalkBursts
    /\ "process" \notin ran
    /\ pool # finished
    /\ finished' = pool
    /\ done' = done + 1
    /\ quiet' = FALSE
    /\ lastOp' = "finish"
    /\ UNCHANGED <<view_width, player_pos, last_chunk, map, pending, pool, world,
                   commands, ran, ticks, dispatched, cancelled, aside>>

\* a frame of the walk ends; the walk is bounded by its length, not in ticks
end_of_walk_frame == end_of_schedule /\ UNCHANGED ticks

InitWalk == Init /\ view_width = NarrowWidth

NextWalk ==
    \/ spawn_required_chunks
    \/ process_chunk_tasks
    \/ end_of_walk_frame
    \/ keyboard_walk
    \/ tasks_complete

SpecWalk == InitWalk /\ [][NextWalk]_vars

\* ------------------------------------------------- the observer comes to rest
\* keyboard_move with one key held for a while: the observer walks east, a
\* chunk at a time, and stops at the latest in chunk SettleX
keyboard_step ==
    /\ app_state = "Playing"
    /\ observers = 1
    /\ ran = {}
    /\ last_chunk = {player_chunk_of(player_pos)}
    /\ player_chunk_of(player_pos)[1] < SettleX
    /\ player_pos' = <<player_pos[1] + CHUNK_SIZE, player_pos[2], player_pos[3]>>
    /\ lastOp' = "move"
    /\ UNCHANGED <<quiet, view_width, last_chunk, map, pending, pool, finished, world,
                   commands, ran, ticks, done, dispatched, cancelled, aside>>

\* the pool runs its tasks: those that are running have all completed when
\* a frame begins
tasks_run ==
    /\ app_state = "Playing"
    /\ ran = {}
    /\ pool # finished
    /\ finished' = pool
    /\ done' = IF done < MaxDone THEN done + 1 ELSE done
    /\ quiet' = FALSE
    /\ lastOp' = "finish"
    /\ UNCHANGED <<view_width, player_pos, last_chunk, map, pending, pool, world,
                   commands, ran, ticks, dispatched, cancelled, aside>>

InitSettle == Init /\ view_width = WideWidth

NextSettle ==
    \/ spawn_required_chunks
    \/ process_chunk_tasks
    \/ end_of_walk_frame
    \/ keyboard_step
    \/ tasks_run

\* the app runs frame after frame, each system once in every frame, and the
\* pool completes every task it was handed
FairFrames ==
    /\ WF_vars(end_of_walk_frame \/ spawn_required_chunks \/ process_chunk_tasks)
    /\ SF_vars(tasks_run)

SpecSettle == InitSettle /\ [][NextSettle]_vars /\ FairFrames

\* the narrow view with the culler and a turning camera
InitCull == Init /\ view_width = NarrowWidth

NextCull ==
    \/ Next
    \/ frustum_cull_chunks
    \/ mouse_look

SpecCull == InitCull /\ [][NextCull]_vars

\* -------------------------------------------------------- generation tasks
\* OnEnter(AppState::Playing): a new resource with samplers of its own
setup_noise_resources ==
    /\ settings # Unloaded
    /\ \E g \in {Cardinality({id[1] : id \in DOMAIN samplers})} :
        /\ g <= MaxGens
        /\ noise' = {from_settings(g, settings)}
        /\ samplers' = sampler_objects(g, settings) @@ samplers
    /\ UNCHANGED <<schedVars, file, settings, edits, salt, build, tasks, sampling>>

\* the chunks a task is dispatched for
GenCoords == {<<0, 1, 0>>, <<1, 1, 1>>}

\* the configuration of the samplers and the amplitudes a clone holds
snapshot(res) ==
    [layers |-> [i \in 1..NUM_LAYERS |->
        Layer(samplers[sid(res.gen, <<"layer", i>>)].seed,
              samplers[sid(res.gen, <<"layer", i>>)].frequency,
              res.amps[i])]]

\* noise.clone() and pool.spawn of spawn_required_chunks, for up to limit tasks
pool_spawn(limit) ==
    /\ Len(tasks) < limit
    /\ \E coord \in GenCoords : \E lod \in {1, 2} : \E res \in noise :
        tasks' = Append(tasks, new_generation(coord, lod, res, snapshot(res)))
    /\ UNCHANGED <<schedVars, file, settings, edits, noise, samplers, salt, build, sampling>>

dispatch_one == pool_spawn(1)

dispatch_many == pool_spawn(MaxTasks)

\* the Arc of the sampler a task's next sample goes to
sampler_of(t) == sid(t.res.gen, request(t).name)

\* a lock that is granted whoever holds it
unlocked_always(id) == TRUE

\* Mutex::lock returns when no task holds the lock
unlocked(id) == \A h \in sampling : h[2] # id

\* x.lock().unwrap() at the head of a sampling block
task_lock(k) ==
    /\ tasks[k].pc # "done"
    /\ unlocked(sampler_of(tasks[k]))
    /\ sampling' = sampling \cup {<<k, sampler_of(tasks[k])>>}
    /\ UNCHANGED <<schedVars, file, settings, edits, noise, samplers, salt, build, tasks>>

\* a guard that lives on after its block
release_kept(h) == sampling

\* the MutexGuard is dropped at the end of its block
release(h) == sampling \ {h}

\* get_noise_2d or get_noise_3d under the lock just taken, and the end of
\* the block
task_sample(k) ==
    /\ tasks[k].pc # "done"
    /\ \E h \in {<<k, sampler_of(tasks[k])>>} \cap sampling :
        /\ tasks' = [tasks EXCEPT ![k] =
                absorb(@, sample(samplers[h[2]], request(@), salt))]
        /\ samplers' = [samplers EXCEPT ![h[2]].calls = @ + 1]
        /\ sampling' = release(h)
    /\ UNCHANGED <<schedVars, file, settings, edits, noise, salt, build>>

\* the settings with every amplitude 0
FlatSettings ==
    [layers |-> [i \in 1..NUM_LAYERS |->
        Layer(BuiltIn.layers[i].seed, BuiltIn.layers[i].frequency, 0)]]

\* no settings.json, or one that holds the flat settings
GenFiles == {NoFile, [kind |-> "text", doc |-> to_string_pretty(FlatSettings)]}

\* settings of three layers of one seed, frequency and amplitude, and two
\* layers of amplitude 0
Amplified(a) ==
    [layers |-> [i \in 1..NUM_LAYERS |-> Layer(4, 10, IF i <= 3 THEN a ELSE 0)]]

\* amplitudes, in halves, a settings.json may hold: 0, 10.0, 300.0 and one
\* of the order of the greatest i32
Amplitudes == {0, 20, 600, I32_MAX}

\* no settings.json, or one with these amplitudes
ColumnFiles ==
    {NoFile} \cup
    {[kind |-> "text", doc |-> to_string_pretty(Amplified(a))] : a \in Amplitudes}

\* the session entered with one of these files
InitColumn ==
    /\ Resources
    /\ view_width = NarrowWidth
    /\ observers = 1
    /\ file \in ColumnFiles
    /\ settings = NoiseSettings_default(file)
    /\ edits = 0
    /\ Entered
    /\ salt \in 0..MaxColumnSalt
    /\ tasks = Empty
    /\ sampling = {}
    /\ build = NoBuild

\* one generation task run from its dispatch to its end
NextColumn ==
    \/ dispatch_one
    \/ \E k \in 1..Len(tasks) : task_lock(k)
    \/ \E k \in 1..Len(tasks) : task_sample(k)

SpecColumn == InitColumn /\ [][NextColumn]_vars

\* the session entered, with a settings.json and a noise function
InitGen ==
    /\ Resources
    /\ view_width = NarrowWidth
    /\ observers = 1
    /\ file \in GenFiles
    /\ settings = NoiseSettings_default(file)
    /\ edits = 0
    /\ Entered
    /\ salt \in 0..MaxSalt
    /\ tasks = Empty
    /\ sampling = {}
    /\ build = NoBuild

\* tasks on the pool's threads
NextGen ==
    \/ dispatch_many
    \/ \E k \in 1..Len(tasks) : task_lock(k)
    \/ \E k \in 1..Len(tasks) : task_sample(k)

SpecGen == InitGen /\ [][NextGen]_vars

\* ------------------------------------------------- neighbouring chunk grids
\* the chunks whose grid is compared with the grid of the next chunk east,
\* above or south
SkirtCoords == {<<0, 0, 0>>, <<0, 1, 0>>, <<-1, 1, -1>>}

\* coord + 1 along the axis
neighbour(coord, axis) == [i \in 1..3 |-> IF i = axis THEN coord[i] + 1 ELSE coord[i]]

\* the grid index of a chunk that is index 0 of the next chunk:
\* CHUNK_SIZE + (0 - 1) * lod = (g - 1) * lod
border(lod) == CHUNK_SIZE \div lod

\* the columns of one z: `for x in 0..=size + 1`
row(lod) == grid_size(lod) + 2

\* world-Y around the top of the chunk
top_window(coord) ==
    <<(coord[2] + 1) * CHUNK_SIZE - SkirtY, (coord[2] + 1) * CHUNK_SIZE + SkirtY - 1>>

\* the low end of the grid of the next chunk: indices 0.. along the axis
low_part(coord, axis, lod) ==
    CASE axis = 1 -> [first |-> 1, stride |-> 1, cols |-> SkirtX,
                      win |-> <<WinLo, WinHi>>]
      [] axis = 2 -> [first |-> 1, stride |-> 1, cols |-> SkirtX,
                      win |-> top_window(coord)]
      [] OTHER -> [first |-> 1, stride |-> row(lod),
                   cols |-> 1 + (SkirtX - 1) * row(lod), win |-> <<WinLo, WinHi>>]

\* the high end of the grid of the chunk: indices border(lod).. along the axis
high_part(coord, axis, lod) ==
    CASE axis = 1 -> [first |-> border(lod) + 1, stride |-> 1,
                      cols |-> border(lod) + SkirtX, win |-> <<WinLo, WinHi>>]
      [] axis = 2 -> [first |-> 1, stride |-> 1, cols |-> SkirtX,
                      win |-> top_window(coord)]
      [] OTHER -> [first |-> border(lod) * row(lod) + 1, stride |-> row(lod),
                   cols |-> (border(lod) + SkirtX - 1) * row(lod) + 1,
                   win |-> <<WinLo, WinHi>>]

\* build_mesh of a chunk at a LOD, followed through a part of its grid
terrain_of(coord, lod, part) ==
    run(start_column([new_generation(coord, lod, from_settings(0, settings), settings)
                        EXCEPT !.first = part.first, !.stride = part.stride,
                               !.cols = part.cols, !.win = part.win],
                     part.first),
        settings, salt)

\* generate_chunk_mesh of a chunk and of its neighbour, at the same LOD
generate_neighbours ==
    /\ tasks = Empty
    /\ \E coord \in SkirtCoords : \E axis \in 1..3 : \E lod \in {1, 2} :
        tasks' = <<terrain_of(coord, lod, high_part(coord, axis, lod)),
                   terrain_of(neighbour(coord, axis), lod, low_part(coord, axis, lod))>>
    /\ UNCHANGED <<schedVars, file, settings, edits, noise, samplers, salt, build, sampling>>

InitSkirt ==
    /\ Resources
    /\ view_width = NarrowWidth
    /\ observers = 1
    /\ file \in GenFiles
    /\ settings = NoiseSettings_default(file)
    /\ edits = 0
    /\ Entered
    /\ salt \in 0..MaxColumnSalt
    /\ tasks = Empty
    /\ sampling = {}
    /\ build = NoBuild

SpecSkirt == InitSkirt /\ [][generate_neighbours]_vars

\* two tasks of one chunk coordinate, one per LOD or two of a kind, each
\* followed through its first LockX columns
dispatch_near ==
    /\ Len(tasks) < MaxTasks
    /\ \E lod \in {1, 2} : \E res \in noise :
        tasks' = Append(tasks,
            [new_generation(<<0, 1, 0>>, lod, res, snapshot(res))
                EXCEPT !.cols = LockX])
    /\ UNCHANGED <<schedVars, file, settings, edits, noise, samplers, salt, build, sampling>>

InitLocks == InitGen /\ file = NoFile /\ salt = 0

NextLocks ==
    \/ dispatch_near
    \/ \E k \in 1..Len(tasks) : task_lock(k)
    \/ \E k \in 1..Len(tasks) : task_sample(k)

\* the pool runs every task it was handed: a task that can go on, into a
\* sampling block or out of it, goes on
FairSteps ==
    \A k \in 1..MaxTasks :
        WF_vars(k <= Len(tasks) /\ (task_lock(k) \/ task_sample(k)))

SpecLocks == InitLocks /\ [][NextLocks]_vars /\ FairSteps

\* one task, the noise buttons and a new session
NextSnapshot ==
    \/ dispatch_one
    \/ \E k \in 1..Len(tasks) : task_lock(k)
    \/ \E k \in 1..Len(tasks) : task_sample(k)
    \/ noise_actions
    \/ setup_noise_resources

SpecSnapshot == InitGen /\ [][NextSnapshot]_vars

\* ------------------------------------------------------------ decorations
\* N of build_mesh::<N>
grid_n(lod) == grid_size(lod) + 2

\* shape.linearize([x, y, z]) of ConstShape3u32<N, N, N>
linearize(lod, c) == c[1] + grid_n(lod) * c[2] + grid_n(lod) * grid_n(lod) * c[3]

\* lx, ly, lz of set_block
local_of(coord, lod, w) ==
    [a \in 1..3 |-> Trunc(w[a] - coord[a] * CHUNK_SIZE, lod) + 1]

\* a set_block that writes wherever it is told to
in_grid_any(lod, c) == TRUE

\* the range check of set_block
in_grid(lod, c) == \A a \in 1..3 : c[a] >= 0 /\ c[a] <= grid_size(lod) + 1

\* ox, oz of a local cell are inside the occupancy array
in_occupancy(lod, ox, oz) ==
    ox >= 0 /\ ox < grid_size(lod) /\ oz >= 0 /\ oz < grid_size(lod)

\* occupancy[occ], i32::MIN where nothing was recorded
occupancy_at(b, occ) ==
    IF occ \in DOMAIN b.occupancy THEN b.occupancy[occ] ELSE -I32_MAX - 1

\* set_block of one block at each of the targets, the world positions of a
\* loop nest: the voxels written, the occupancy raised, the indices used and
\* the targets dropped
set_block(b, targets, block) ==
    LET lod == b.t.lod
        stride == grid_size(lod)
        at(w) == local_of(b.t.coord, lod, w)
        hits == {w \in targets : in_grid(lod, at(w))}
        cells == {at(w) : w \in hits}
        occ(w) == (at(w)[1] - 1) + (at(w)[3] - 1) * stride
        roofed == {w \in hits : in_occupancy(lod, at(w)[1] - 1, at(w)[3] - 1)}
        occs == {occ(w) : w \in roofed}
        top(o) == CHOOSE y \in {w[2] : w \in {v \in roofed : occ(v) = o}} :
                    \A w \in roofed : occ(w) = o => w[2] <= y
    IN [b EXCEPT !.t.voxels = [c \in cells |-> block] @@ @,
                 !.occupancy = [o \in occs |-> Max(top(o), occupancy_at(b, o))] @@ @,
                 !.touched = @ \cup {<<"voxels", linearize(lod, c)>> : c \in cells}
                               \cup {<<"occupancy", o>> : o \in occs},
                 !.stamped = @ \cup {<<c, block>> : c \in cells},
                 !.dropped = @ \cup (targets \ hits)]

\* the sampler object of a field of the build's resource
build_sampler(b, name) ==
    LET c == sampler_cfg(b.t.cfg0.layers, name)
    IN [seed |-> c.seed, frequency |-> c.frequency, calls |-> 0]

\* (get_noise_2d(wx + shift, wz + shift) + 1.0) / 2.0, in twentieths
unit_noise(b, name, wx, wz, shift, slt) ==
    get_noise_2d(build_sampler(b, name), wx + shift, wz + shift, slt) + 10

\* get_noise_3d(x * 0.3, y * 0.3, z * 0.3) of boulder_shape: the scaled point
\* is 0.3 times the frequency times the position
shape_noise(b, w, slt) ==
    LET s == build_sampler(b, <<"boulder_shape", 0>>)
        f(x) == 3 * x * s.frequency
    IN IF \A a \in 1..3 : f(w[a]) % 10000 = 0 THEN 10
       ELSE noise_value(s, 3 * (f(w[1]) \div (10 * FREQ_CELL))
                           + 7 * (f(w[2]) \div (10 * FREQ_CELL))
                           + 5 * (f(w[3]) \div (10 * FREQ_CELL)), slt) + 10

\* b_scatter < b_density * b_density * 0.3
boulder_here(b, wx, wz, slt) ==
    LET density == unit_noise(b, <<"boulder_density", 0>>, wx, wz, 0, slt)
        scatter == unit_noise(b, <<"boulder_scatter", 0>>, wx, wz, 0, slt)
    IN 200 * scatter < 3 * density * density

\* t_scatter < t_density * t_density * 0.5
tree_here(b, wx, wz, slt) ==
    LET density == unit_noise(b, <<"tree_density", 0>>, wx, wz, 0, slt)
        scatter == unit_noise(b, <<"tree_scatter", 0>>, wx, wz, 0, slt)
    IN 40 * scatter < density * density

\* the positions the boulder loops hand to set_block: radius = 1 +
\* (variant * 3.0) as i32, r = radius * (0.7 + shape * 0.6)
boulder_targets(b, wx, height, wz, slt) ==
    LET variant == unit_noise(b, <<"boulder_scatter", 0>>, wx, wz, 2000, slt)
        radius == 1 + (3 * variant) \div 20
    IN {<<wx + bx, height + by, wz + bz>> :
            <<bx, by, bz>> \in
                {d \in (-radius..radius) \X (0..radius) \X (-radius..radius) :
                    LET shape == shape_noise(b, <<wx + d[1], height + d[2], wz + d[3]>>, slt)
                    IN (d[1] * d[1] + d[2] * d[2] + d[3] * d[3]) * 10000
                            <= radius * radius * (70 + 3 * shape) * (70 + 3 * shape)}}

\* trunk_size, trunk_h and canopy of a tree
tree_of(b, wx, wz, slt) ==
    LET variant == unit_noise(b, <<"tree_scatter", 0>>, wx, wz, 1000, slt)
        trunk_size == (3 * variant) \div 20 + 1
    IN [trunk_size |-> trunk_size,
        trunk_h |-> 6 + trunk_size * 4 + variant \div 10,
        canopy |-> trunk_size * 2 + 2 + variant \div 10]

\* the occupancy indices the 'check loop may read
check_reads(b, tree, wx, wz) ==
    LET lod == b.t.lod
    IN {lx + lz * grid_size(lod) :
           <<lx, lz>> \in {c \in {<<Trunc(wx + tx - b.t.coord[1] * CHUNK_SIZE, lod),
                                    Trunc(wz + tz - b.t.coord[3] * CHUNK_SIZE, lod)>> :
                                        tx \in 0..(tree.trunk_size - 1),
                                        tz \in 0..(tree.trunk_size - 1)} :
                               in_occupancy(lod, c[1], c[2])}}

\* a check that finds every footprint free
colliding_never(b, tree, wx, height, wz) == FALSE

\* colliding: something recorded under the trunk is higher than the column
colliding(b, tree, wx, height, wz) ==
    \E o \in check_reads(b, tree, wx, wz) : occupancy_at(b, o) > height

\* the trunk, then the canopy
tree_stamp(b, tree, wx, height, wz) ==
    LET top == height + tree.trunk_h
        c == tree.canopy
        trunk == {<<wx + tx, height + ty, wz + tz>> :
                    tx \in 0..(tree.trunk_size - 1), ty \in 1..tree.trunk_h,
                    tz \in 0..(tree.trunk_size - 1)}
        leaves == {<<wx + d[1], top + d[2], wz + d[3]>> :
                    d \in {e \in (-c..c) \X (0..c) \X (-c..c) :
                            e[1] * e[1] + e[3] * e[3] + e[2] * e[2] <= c * c}}
    IN set_block(set_block(b, trunk, "Wood"), leaves, "Leaf")

\* decorations at every LOD
decorated_lod_any(lod) == TRUE

\* `if lod == 1`
decorated_lod(lod) == lod = 1

\* the decorations of a column of the given height
decorate(b, wx, height, wz, slt) ==
    IF ~decorated_lod(b.t.lod) THEN b
    ELSE IF boulder_here(b, wx, wz, slt)
    THEN set_block(b, boulder_targets(b, wx, height, wz, slt), "Stone")
    ELSE IF tree_here(b, wx, wz, slt)
    THEN LET tree == tree_of(b, wx, wz, slt)
             read == [b EXCEPT !.touched = @ \cup
                        {<<"occupancy", o>> : o \in check_reads(b, tree, wx, wz)}]
         IN IF colliding(b, tree, wx, height, wz) THEN read
            ELSE tree_stamp(read, tree, wx, height, wz)
    ELSE b

RECURSIVE terrain_column(_, _, _)
\* the terrain pass of the column the task is at
terrain_column(t, col, slt) ==
    IF t.col # col THEN t
    ELSE LET r == request(t)
             c == sampler_cfg(t.cfg0.layers, r.name)
         IN terrain_column(absorb(t, sample([seed |-> c.seed, frequency |-> c.frequency,
                                             calls |-> 0], r, slt)), col, slt)

\* the occupancy of an inner column is raised to its height
terrain_roof(b, n, height) ==
    LET lod == b.t.lod
        x == grid_column(lod, n)[1]
        z == grid_column(lod, n)[2]
        occ == (x - 1) + (z - 1) * grid_size(lod)
    IN IF x >= 1 /\ x <= grid_size(lod) /\ z >= 1 /\ z <= grid_size(lod)
       THEN [b EXCEPT !.occupancy = (occ :> Max(height, occupancy_at(b, occ))) @@ @,
                      !.touched = @ \cup {<<"occupancy", occ>>}]
       ELSE b

\* one pass of the body of `for x in 0..=size + 1`: heights, occupancy,
\* cells and decorations of column n
column_pass(b, slt) ==
    LET n == b.t.col
        lod == b.t.lod
        t == terrain_column(b.t, n, slt)
        height == t.heights[n]
        wx == world_of(b.t.coord[1], lod, grid_column(lod, n)[1])
        wz == world_of(b.t.coord[3], lod, grid_column(lod, n)[2])
        filled == {linearize(lod, grid_cell(lod, n, y)) :
                      y \in {y \in 1..(grid_size(lod) + 1) :
                                world_of(b.t.coord[2], lod, y) <= height + CAVE_MARGIN}}
        roofed == terrain_roof([b EXCEPT !.t = t, !.touched = {}, !.stamped = {},
                                         !.dropped = {}], n, height)
    IN decorate([roofed EXCEPT !.touched = @ \cup {<<"voxels", i>> : i \in filled}],
                wx, height, wz, slt)

\* the chunks built column by column
BuildCoords == {<<0, 1, 0>>, <<-1, 1, -1>>}

\* build_mesh with its locals as declared: occupancy of i32::MIN, and
\* nothing in the buffers of the mesh
entered_build(t) ==
    [t |-> t, occupancy |-> Empty, touched |-> {}, stamped |-> {},
     dropped |-> {}, meshed |-> FALSE, quads |-> <<>>, emitted |-> 0,
     positions |-> <<>>, normals |-> <<>>, colors |-> <<>>, indices |-> <<>>]

\* build_mesh entered: empty voxels
begin_build ==
    /\ build = NoBuild
    /\ \E coord \in BuildCoords, lod \in {1, 2}, res \in noise :
        build' = entered_build([new_generation(coord, lod, res, snapshot(res))
                                    EXCEPT !.cols = BuildX])
    /\ UNCHANGED <<schedVars, file, settings, edits, noise, samplers, salt, tasks, sampling>>

\* the next column of the loops
build_column ==
    /\ build # NoBuild
    /\ build.t.pc # "done"
    /\ build' = column_pass(build, salt)
    /\ UNCHANGED <<schedVars, file, settings, edits, noise, samplers, salt, tasks, sampling>>

\* ----------------------------------------------------------------- meshing
\* RIGHT_HANDED_Y_UP_CONFIG.faces: sign of the normal and the axes n, u, v
\* (1 = X, 2 = Y, 3 = Z); a quad is wide along u and high along v
Faces ==
    <<[n_sign |-> -1, n |-> 1, u |-> 3, v |-> 2],
      [n_sign |-> -1, n |-> 2, u |-> 3, v |-> 1],
      [n_sign |-> -1, n |-> 3, u |-> 1, v |-> 2],
      [n_sign |-> 1, n |-> 1, u |-> 3, v |-> 2],
      [n_sign |-> 1, n |-> 2, u |-> 3, v |-> 1],
      [n_sign |-> 1, n |-> 3, u |-> 1, v |-> 2]>>

\* a cell moved k steps along an axis
shift(c, axis, k) == [a \in 1..3 |-> IF a = axis THEN c[a] + k ELSE c[a]]

\* VoxelVisibility::Opaque: any block but Empty; the grid holds the blocks
\* written, every other cell is EMPTY
opaque(voxels, c) == c \in DOMAIN voxels

\* the extent [1; 3]..[size + 1; 3] without its one-voxel padding
interior(lod, c) == \A a \in 1..3 : c[a] >= 2 /\ c[a] <= grid_size(lod)

\* a face is meshed wherever the voxel is solid
face_needs_mesh_any(voxels, f, c) == opaque(voxels, c)

\* face_needs_mesh: the voxel is solid and the voxel it faces is Empty
face_needs_mesh(voxels, f, c) ==
    opaque(voxels, c) /\ ~opaque(voxels, shift(c, f.n, f.n_sign))

\* the place of a cell in the order of the slices of a face and, within a
\* slice, of the linear index
slice_order(lod, f, c) ==
    LET hi == IF f.u > f.v THEN f.u ELSE f.v
        lo == IF f.u > f.v THEN f.v ELSE f.u
    IN (c[f.n] * grid_n(lod) + c[hi]) * grid_n(lod) + c[lo]

RECURSIVE get_row_width(_, _, _, _, _, _)
\* the cells of a row, from c along u, that are open and merge with value
get_row_width(voxels, open, c, u, value, max_width) ==
    IF max_width = 0 \/ c \notin open \/ voxels[c] # value THEN 0
    ELSE 1 + get_row_width(voxels, open, shift(c, u, 1), u, value, max_width - 1)

RECURSIVE quad_rows(_, _, _, _, _, _, _)
\* the rows from c along v that are as wide as the quad
quad_rows(voxels, open, c, f, value, width, max_height) ==
    IF max_height = 0 \/ get_row_width(voxels, open, c, f.u, value, width) < width
    THEN 0
    ELSE 1 + quad_rows(voxels, open, shift(c, f.v, 1), f, value, width, max_height - 1)

\* VoxelMerger::find_quad at the open cell c
find_quad(voxels, lod, open, f, c) ==
    LET ub == grid_size(lod) + 1
        width == get_row_width(voxels, open, c, f.u, voxels[c], ub - c[f.u])
    IN [face |-> f, minimum |-> c, width |-> width,
        height |-> quad_rows(voxels, open, c, f, voxels[c], width, ub - c[f.v])]

\* the cells a quad covers
quad_cells(q) ==
    {shift(shift(q.minimum, q.face.u, i), q.face.v, j) :
        i \in 0..(q.width - 1), j \in 0..(q.height - 1)}

RECURSIVE greedy_quads_for_face(_, _, _, _)
\* the quads of a face, over the cells whose face is still to be meshed
greedy_quads_for_face(voxels, lod, f, open) ==
    IF open = {} THEN <<>>
    ELSE LET first == CHOOSE k \in {slice_order(lod, f, c) : c \in open} :
                        \A c \in open : k <= slice_order(lod, f, c)
             c == CHOOSE c \in open : slice_order(lod, f, c) = first
             q == find_quad(voxels, lod, open, f, c)
         IN <<q>> \o greedy_quads_for_face(voxels, lod, f, open \ quad_cells(q))

RECURSIVE quad_groups(_, _, _)
\* buffer.quads.groups zipped with the faces, one group after the other
quad_groups(voxels, lod, i) ==
    IF i > Len(Faces) THEN <<>>
    ELSE greedy_quads_for_face(voxels, lod, Faces[i],
            {c \in DOMAIN voxels :
                interior(lod, c) /\ face_needs_mesh(voxels, Faces[i], c)})
         \o quad_groups(voxels, lod, i + 1)

\* greedy_quads(&voxels, &shape, [1; 3], [size + 1; 3], faces, &mut buffer)
greedy_quads(voxels, lod) == quad_groups(voxels, lod, 1)

\* quad_corners: minu_minv, maxu_minv, minu_maxv, maxu_maxv
quad_corners(q) ==
    LET f == q.face
        base == IF f.n_sign > 0 THEN shift(q.minimum, f.n, 1) ELSE q.minimum
    IN <<base, shift(base, f.u, q.width), shift(base, f.v, q.height),
         shift(shift(base, f.u, q.width), f.v, q.height)>>

\* positions that keep the offset of the padding
quad_mesh_positions_padded(q, lod) ==
    [k \in 1..4 |-> [a \in 1..3 |-> lod * quad_corners(q)[k][a]]]

\* face.quad_mesh_positions(quad, lod as f32), each coordinate less lod
quad_mesh_positions(q, lod) ==
    [k \in 1..4 |-> [a \in 1..3 |-> lod * quad_corners(q)[k][a] - lod]]

\* face.quad_mesh_normals()
quad_mesh_normals(q) ==
    [k \in 1..4 |-> [a \in 1..3 |-> IF a = q.face.n THEN q.face.n_sign ELSE 0]]

\* the sign of the permutation of the axes: Zxy is even, Xzy and Yzx are odd
permutation_sign(f) == IF f.n = 3 THEN 1 ELSE -1

\* indices that start one quad late
quad_mesh_indices_late(f, start) ==
    <<start + 4, start + 5, start + 6, start + 5, start + 7, start + 6>>

\* face.quad_mesh_indices(start): two triangles over the four vertices
quad_mesh_indices(f, start) ==
    IF f.n_sign * permutation_sign(f) > 0
    THEN <<start, start + 1, start + 2, start + 1, start + 3, start + 2>>
    ELSE <<start, start + 2, start + 1, start + 1, start + 2, start + 3>>

\* the colour of a block, in hundredths
block_color(block) ==
    CASE block = "Grass" -> <<10, 80, 10, 100>>
      [] block = "Dirt" -> <<55, 27, 7, 100>>
      [] block = "Stone" -> <<60, 60, 60, 100>>
      [] block = "Wood" -> <<55, 27, 7, 100>>
      [] block = "Leaf" -> <<20, 60, 20, 100>>
      [] OTHER -> <<100, 100, 100, 100>>

\* greedy_quads over [1; 3]..[size + 1; 3]: the corners of the extent bound
\* the indices it reads, linearize growing with each coordinate
build_quads ==
    /\ build # NoBuild
    /\ build.t.pc = "done"
    /\ ~build.meshed
    /\ build' = [build EXCEPT
            !.meshed = TRUE, !.stamped = {}, !.dropped = {},
            !.quads = greedy_quads(build.t.voxels, build.t.lod),
            !.touched = {<<"voxels", linearize(build.t.lod, <<1, 1, 1>>)>>,
                         <<"voxels", linearize(build.t.lod,
                                [a \in 1..3 |-> grid_size(build.t.lod) + 1])>>}]
    /\ UNCHANGED <<schedVars, file, settings, edits, noise, samplers, salt, tasks, sampling>>

\* the body of `for quad in group.iter()` for the next quad of the buffer
push_quad ==
    /\ build # NoBuild
    /\ build.meshed
    /\ build.emitted < Len(build.quads)
    /\ LET q == build.quads[build.emitted + 1]
           start == Len(build.positions)
           voxel == block_at(build.t, q.minimum)
       IN build' = [build EXCEPT
            !.emitted = @ + 1,
            !.positions = @ \o quad_mesh_positions(q, build.t.lod),
            !.normals = @ \o quad_mesh_normals(q),
            !.indices = @ \o quad_mesh_indices(q.face, start),
            !.colors = @ \o [k \in 1..4 |-> block_color(voxel)],
            !.touched = {<<"voxels", linearize(build.t.lod, q.minimum)>>}]
    /\ UNCHANGED <<schedVars, file, settings, edits, noise, samplers, salt, tasks, sampling>>

NextBuild ==
    \/ begin_build
    \/ build_column
    \/ build_quads
    \/ push_quad

SpecBuild == InitColumn /\ [][NextBuild]_vars

\* the cells that are solid in the grids handed to the mesher: around the
\* low corner of the interior, at its high corner, in the padding next to
\* them and in the layer 0
MeshCells(lod) ==
    {<<2, 2, 2>>, <<3, 2, 2>>, <<2, 3, 2>>, <<2, 2, 3>>, <<1, 2, 2>>, <<2, 1, 2>>,
     <<0, 2, 2>>, [a \in 1..3 |-> grid_size(lod)],
     <<grid_size(lod) + 1, grid_size(lod), grid_size(lod)>>}

\* the blocks of a grid: stone only, two blocks in a checkerboard, or two
\* blocks in layers
MeshPalettes == 1..3

palette(p, c) ==
    CASE p = 1 -> "Stone"
      [] p = 2 -> IF (c[1] + c[2] + c[3]) % 2 = 0 THEN "Grass" ELSE "Leaf"
      [] OTHER -> IF c[1] = 2 THEN "Wood" ELSE "Dirt"

\* the loops of build_mesh are over and have left one of these grids
InitMesh ==
    /\ Resources
    /\ view_width = NarrowWidth
    /\ observers = 1
    /\ file = NoFile
    /\ settings = NoiseSettings_default(file)
    /\ edits = 0
    /\ Entered
    /\ salt = 0
    /\ tasks = Empty
    /\ sampling = {}
    /\ \E lod \in {1, 2}, p \in MeshPalettes, res \in noise :
        \E solid \in SUBSET MeshCells(lod) :
            build = entered_build(
                        [new_generation(<<0, 1, 0>>, lod, res, snapshot(res))
                            EXCEPT !.pc = "done",
                                   !.voxels = [c \in solid |-> palette(p, c)]])

\* the mesher, and the loop over its quads
NextMesh ==
    \/ build_quads
    \/ push_quad

SpecMesh == InitMesh /\ [][NextMesh]_vars

\* ------------------------------------------------------------------ claims
\* the observer's current chunk
observer_chunk == player_chunk_of(player_pos)

\* the Chunk component of an entity that is spawned or about to be
known(e) == e \in DOMAIN commands.spawn \/ e \in DOMAIN world

chunk_of(e) == IF e \in DOMAIN commands.spawn THEN commands.spawn[e] ELSE world[e]

\* the chunk entities once the deferred commands are applied
settled == apply_commands(world, commands)

\* a step of spawn_required_chunks that is not skipped
PassStep == "spawn" \notin ran /\ "spawn" \in ran' /\ lastOp' = "pass"

\* C1: no coordinate is in the resident map and in the pending map at
\* conflicting LODs: where both have an entry, the resident chunk has the LOD
\* the pending task was requested at.
C1_NoConflictingLods ==
    \A m \in map : \A p \in pending :
        (m.coord = p.coord /\ known(m.entity)) => chunk_of(m.entity).lod = p.lod

\* a pass has just replaced a resident chunk by a request at another LOD
C1_Reached ==
    /\ lastOp = "pass"
    /\ \E e \in commands.despawn \cap DOMAIN world : \E p \in pending :
        /\ p.coord = world[e].coord
        /\ p.coord \in dispatched
        /\ p.lod # world[e].lod

\* C2: at the end of a tick whose scheduling pass has seen the observer's
\* chunk, every resident or pending coordinate is within view_width + 2
\* (Chebyshev, horizontal) of that chunk.
C2_WithinEvictionRange ==
    (ran = {} /\ lastOp = "end" /\ last_chunk = {observer_chunk}) =>
        /\ \A m \in map :
            HorizDist(m.coord, observer_chunk) <= view_width + EVICT_MARGIN
        /\ \A p \in pending :
            HorizDist(p.coord, observer_chunk) <= view_width + EVICT_MARGIN

\* C3: at most one live task per coordinate: the live tasks are the tasks of
\* the pending entries, one entry per coordinate, and a pass leaves exactly
\* one live task for each coordinate it dispatched.
C3_OneTaskPerCoordinate ==
    /\ pool = {p.task : p \in pending}
    /\ Cardinality({t.coord : t \in pool}) = Cardinality(pool)
    /\ Cardinality({p.coord : p \in pending}) = Cardinality(pending)
    /\ lastOp = "pass" => dispatched \subseteq {t.coord : t \in pool}

\* a pass has re-requested coordinates whose tasks were in flight, next to
\* coordinates whose tasks it left alone
C3_Reached ==
    /\ lastOp = "pass"
    /\ cancelled # {}
    /\ {t.coord : t \in cancelled} \subseteq dispatched
    /\ \E p \in pending : p.coord \notin dispatched

\* C4: no coordinate has two live chunk entities, and once the deferred
\* commands are applied the live chunk entities are exactly the entities the
\* resident map records, each under its own coordinate.
C4_OneEntityPerCoordinate ==
    /\ \A e1 \in DOMAIN world : \A e2 \in DOMAIN world :
        world[e1].coord = world[e2].coord => e1 = e2
    /\ \A e \in DOMAIN settled : [coord |-> settled[e].coord, entity |-> e] \in map
    /\ \A m \in map : m.entity \in DOMAIN settled

\* the entity of a coordinate is being despawned for its LOD and the chunk of
\* the new LOD is being spawned for that coordinate
C4_Reached ==
    \E e1 \in commands.despawn \cap DOMAIN world : \E e2 \in DOMAIN commands.spawn :
        /\ world[e1].coord = commands.spawn[e2].coord
        /\ world[e1].lod # commands.spawn[e2].lod

\* C5: after the first scheduling pass, with the observer in the origin chunk
\* and before any completion, exactly (2 * view_width + 1)^2 * MAX_CHUNKS_Y
\* coordinates are pending or resident.
C5_FirstPassCount ==
    (lastOp = "pass" /\ ticks = 0 /\ last_chunk = {<<0, 0, 0>>}) =>
        Cardinality({p.coord : p \in pending} \cup {m.coord : m \in map})
            = (2 * view_width + 1) * (2 * view_width + 1) * MAX_CHUNKS_Y

\* the first pass with view_width = 4: 648 coordinates
C5_Reached ==
    /\ lastOp = "pass" /\ ticks = 0 /\ last_chunk = {<<0, 0, 0>>}
    /\ view_width = 4
    /\ Cardinality({p.coord : p \in pending}) = 648
    /\ map = {}

\* C6: a scheduling pass that is performed removes from the resident map, and
\* despawns, every resident chunk further than view_width + 2 from the
\* observer's chunk, and keeps every resident chunk within that distance whose
\* coordinate it does not request again.
C6_EvictsFarKeepsNear ==
    [][PassStep =>
        \A m \in map :
            IF HorizDist(m.coord, observer_chunk) > view_width + EVICT_MARGIN
            THEN /\ m.coord \notin {n.coord : n \in map'}
                 /\ m.entity \in commands'.despawn
            ELSE m.coord \notin dispatched' =>
                    /\ m \in map'
                    /\ m.entity \notin commands'.despawn]_vars

\* a pass has evicted a resident chunk that is out of range and kept another
C6_Reached ==
    /\ lastOp = "pass"
    /\ map # {}
    /\ \E e \in commands.despawn \cap DOMAIN world :
        HorizDist(world[e].coord, observer_chunk) > view_width + EVICT_MARGIN

\* C7: after a scheduling pass no pending task is left for a coordinate
\* further than view_width + 2 from the observer's chunk.
C7_FarPendingAbandoned ==
    lastOp = "pass" =>
        \A p \in pending :
            HorizDist(p.coord, observer_chunk) <= view_width + EVICT_MARGIN

\* C8: a chunk becomes resident at a coordinate only from the finished, live
\* task of the pending entry of that coordinate, and with the LOD that entry
\* requests; the handles a pass drops are no longer live.
C8_OnlyCurrentTaskApplied ==
    [][/\ \A m \in map' \ map :
            \E p \in pending :
                /\ p.coord = m.coord
                /\ p.task \in finished \cap pool
                /\ m.entity \in DOMAIN commands'.spawn
                /\ commands'.spawn[m.entity].coord = m.coord
                /\ commands'.spawn[m.entity].lod = p.lod
       /\ PassStep => cancelled' \cap (pool' \cup finished') = {}]_vars

\* a pass has superseded the task of a coordinate and the poll of the same
\* tick has promoted the chunk of the new request
C8_Reached ==
    /\ lastOp = "poll"
    /\ \E t \in cancelled : \E e \in DOMAIN commands.spawn :
        /\ commands.spawn[e].coord = t.coord
        /\ commands.spawn[e].lod # t.lod
        /\ [coord |-> t.coord, entity |-> e] \in map

\* C9: the LOD a pass requests for a coordinate is 1 when the Chebyshev
\* horizontal distance of the coordinate from the observer's chunk is at most
\* 6 and 2 otherwise, whatever the layer and the observer's vertical chunk.
C9_LodStepFunction ==
    lastOp = "pass" =>
        \A p \in pending :
            p.coord \in dispatched =>
                p.lod = (IF HorizDist(p.coord, observer_chunk) <= LOD_NEAR_DIST
                         THEN 1 ELSE 2)

\* a pass with the observer above the ground layer has requested both LODs,
\* on several layers
C9_Reached ==
    /\ lastOp = "pass"
    /\ observer_chunk[2] # 0
    /\ \E p \in pending : \E q \in pending :
        /\ p.coord \in dispatched /\ q.coord \in dispatched
        /\ p.lod = 1 /\ q.lod = 2
        /\ p.coord[2] # q.coord[2]

\* C10: after a scheduling pass that is performed, every coordinate of the
\* required set is pending at its required LOD or resident at its required
\* LOD.
C10_RequiredSetCovered ==
    lastOp = "pass" =>
        \E pendingLods \in {{[coord |-> p.coord, lod |-> p.lod] : p \in pending}} :
        \E residentLods \in {{[coord |-> m.coord, lod |-> chunk_of(m.entity).lod] :
                                m \in {n \in map : known(n.entity)}}} :
            /\ Sorted(pendingLods)
            /\ \A r \in required(observer_chunk, view_width) :
                r \in pendingLods \/ r \in residentLods

\* a step of process_chunk_tasks
PollStep == "process" \notin ran /\ "process" \in ran' /\ lastOp' = "poll"

\* C11: one poll handles every pending task without waiting for any: a
\* finished task leaves the pending map and a new entity with the task's
\* coordinate and LOD, placed at coordinate * CHUNK_SIZE, is recorded for it in
\* the resident map; an unfinished task keeps its pending entry unchanged.
C11_PollPromotesFinishedOnly ==
    [][PollStep =>
        \A p \in pending :
            IF p.task \in finished
            THEN /\ p.coord \notin {q.coord : q \in pending'}
                 /\ \E m \in map' :
                     /\ m.coord = p.coord
                     /\ ~known(m.entity)
                     /\ m.entity \in DOMAIN commands'.spawn
                     /\ commands'.spawn[m.entity].coord = p.task.coord
                     /\ commands'.spawn[m.entity].lod = p.task.lod
                     /\ commands'.spawn[m.entity].translation
                            = <<p.coord[1] * CHUNK_SIZE, p.coord[2] * CHUNK_SIZE,
                                p.coord[3] * CHUNK_SIZE>>
            ELSE /\ p \in pending'
                 /\ p.coord \notin {m.coord : m \in map'}]_vars

\* a poll has promoted a finished task while other tasks were still running
C11_Reached ==
    /\ lastOp = "poll"
    /\ \E e \in DOMAIN commands.spawn :
        /\ [coord |-> commands.spawn[e].coord, entity |-> e] \in map
        /\ commands.spawn[e].coord # <<0, 0, 0>>
    /\ \E p \in pending : p.task \in pool \ finished

\* C12: once the play session has ended the resident map and the pending map
\* are empty, no background task is live, and every chunk entity is despawned
\* when the deferred commands of the exit are applied.
C12_SessionEndClearsAll ==
    app_state = "Menu" =>
        /\ map = {}
        /\ pending = {}
        /\ pool = {}
        /\ finished = {}
        /\ DOMAIN settled = {}

\* the session has ended with chunks resident and tasks in flight
C12_Reached ==
    /\ app_state = "Menu"
    /\ lastOp = "exit"
    /\ commands.despawn # {}
    /\ commands.despawn = DOMAIN world
    /\ cancelled # {}

\* a step of frustum_cull_chunks
CullStep == "cull" \notin ran /\ "cull" \in ran' /\ lastOp' = "cull"

\* C13: the culler changes nothing but the Visibility of the chunk entities:
\* the resident map, the pending map, the tasks, the deferred commands and
\* the set of chunk entities with their other components stay as they are,
\* and a second run with the same frustum leaves the flags of the first.
C13_CullOnlySetsVisibility ==
    [][CullStep =>
        /\ map' = map /\ pending' = pending /\ pool' = pool
        /\ finished' = finished /\ commands' = commands
        /\ DOMAIN world' = DOMAIN world
        /\ \A e \in DOMAIN world :
            /\ world'[e].coord = world[e].coord
            /\ world'[e].lod = world[e].lod
            /\ world'[e].translation = world[e].translation
            /\ world'[e].visibility \in {"Visible", "Hidden"}
        /\ culled(frustum', world') = world']_vars

\* the culler has shown one resident chunk and hidden another, with tasks
\* still pending
C13_Reached ==
    /\ lastOp = "cull"
    /\ pending # {}
    /\ \E e1 \in DOMAIN world : \E e2 \in DOMAIN world :
        /\ world[e1].visibility = "Visible"
        /\ world[e2].visibility = "Hidden"
        /\ {[coord |-> world[e1].coord, entity |-> e1],
            [coord |-> world[e2].coord, entity |-> e2]} \subseteq map

\* C14: without an observer entity the scheduling pass runs as for an
\* observer at the world origin: the first pass requests exactly the required
\* set of chunk (0, 0), no later pass requests anything else, and the
\* coordinates resident or pending stay that set.
C14_MissingObserverIsOrigin ==
    observers = 0 =>
        /\ last_chunk \subseteq {<<0, 0, 0>>}
        /\ (lastOp = "pass" =>
                {[coord |-> p.coord, lod |-> p.lod] : p \in pending}
                    = required(<<0, 0, 0>>, view_width))
        /\ (last_chunk # {} /\ app_state = "Playing" =>
                {p.coord : p \in pending} \cup {m.coord : m \in map}
                    = {r.coord : r \in required(<<0, 0, 0>>, view_width)})

\* without an observer a chunk of the origin's required set has been
\* generated and promoted
C14_Reached ==
    /\ observers = 0
    /\ last_chunk = {<<0, 0, 0>>}
    /\ ticks > 0
    /\ map # {}
    /\ pending # {}

\* the bound of the working set: the columns within view_width + 2
WorkingSetBound ==
    (2 * (view_width + EVICT_MARGIN) + 1) * (2 * (view_width + EVICT_MARGIN) + 1)
        * MAX_CHUNKS_Y

\* what a finished task hands over, and what build_mesh computes alone from
\* the configuration the task's clone was made of
finished_as_built(t) ==
    t.pc = "done" => t.voxels = generate_chunk_mesh(t.coord, t.lod, t.cfg0, salt)

\* C15: the result of a background task is the one build_mesh computes from
\* the noise configuration in effect when the task was dispatched, whatever
\* edits of the settings and whatever new resource came after the dispatch
C15_TaskUsesDispatchSnapshot ==
    \A k \in 1..Len(tasks) : finished_as_built(tasks[k])

\* a task has finished after an edit and a rebuilt resource that would have
\* given it other voxels
C15_Reached ==
    \E k \in 1..Len(tasks) :
        /\ tasks[k].pc = "done"
        /\ edits > 0
        /\ noise # {tasks[k].res}
        /\ settings # tasks[k].cfg0
        /\ tasks[k].voxels #
                generate_chunk_mesh(tasks[k].coord, tasks[k].lod, settings, salt)

\* C16: at no time do two tasks sample the same sampler object: the tasks
\* inside a sampling block hold locks of different samplers
C16_SamplerMutualExclusion ==
    \A a \in sampling : \A b \in sampling : a[2] = b[2] => a = b

\* a task samples a sampler while another task, whose next sample goes to
\* the same object, is kept out
C16_Reached ==
    \E a \in sampling : \E k \in 1..Len(tasks) :
        /\ k # a[1]
        /\ tasks[k].pc # "done"
        /\ sampler_of(tasks[k]) = a[2]
        /\ \A h \in sampling : h[1] # k

\* two tasks generate the same chunk at the same LOD from the same noise
\* configuration
same_generation(a, b) ==
    a.coord = b.coord /\ a.lod = b.lod /\ a.cfg0 = b.cfg0

\* C17: two generations of a chunk coordinate at a LOD of {1,2} with the same
\* noise configuration end with identical voxels, the ones of a generation
\* run alone, however the steps of the tasks interleave and whichever task
\* was dispatched first
C17_GenerationDeterministic ==
    \A j \in 1..Len(tasks) : \A k \in 1..Len(tasks) :
        (/\ tasks[j].pc = "done"
         /\ tasks[k].pc = "done"
         /\ same_generation(tasks[j], tasks[k]))
            => /\ tasks[j].voxels = tasks[k].voxels
               /\ tasks[k].voxels =
                    generate_chunk_mesh(tasks[k].coord, tasks[k].lod, tasks[k].cfg0, salt)

\* two tasks of the same chunk and LOD, served by the same samplers, have
\* both finished with solid cells
C17_Reached ==
    /\ Len(tasks) = 2
    /\ tasks[1].pc = "done" /\ tasks[2].pc = "done"
    /\ same_generation(tasks[1], tasks[2])
    /\ DOMAIN tasks[1].voxels # {}
    /\ \E id \in DOMAIN samplers : samplers[id].calls > 2

\* every amplitude of the configuration is 0
flat(cfg) == \A i \in 1..NUM_LAYERS : cfg.layers[i].amplitude = 0

\* the cells of the window in the grid of a task
window_cells(t) ==
    {grid_cell(t.lod, n, y) : n \in 1..t.cols, y \in window_ys(t.coord, t.lod, t.win)}

\* C18: with every layer amplitude 0 and the base height 40, the solid cells
\* of a generated grid are exactly the cells with world-Y <= 40, Grass at 40,
\* Dirt at 39 and Stone below
C18_FlatTerrainIsFlat ==
    \A k \in 1..Len(tasks) :
        (tasks[k].pc = "done" /\ flat(tasks[k].cfg0)) =>
            \A cell \in window_cells(tasks[k]) :
                LET wy == world_of(tasks[k].coord[2], tasks[k].lod, cell[2])
                IN  /\ cell \in DOMAIN tasks[k].voxels <=> wy <= BASE_HEIGHT
                    /\ cell \in DOMAIN tasks[k].voxels =>
                            tasks[k].voxels[cell] = terrain_block(wy, BASE_HEIGHT)

\* C19: in every reachable state the number of resident chunks, recorded in
\* the resident map or alive as entities, is at most
\* (2 * (view_width + 2) + 1)^2 * MAX_CHUNKS_Y.
C19_WorkingSetBounded ==
    /\ Cardinality(map) <= WorkingSetBound
    /\ Cardinality(DOMAIN world) <= WorkingSetBound

\* a step of init_resource
LoadStep == settings = Unloaded /\ settings' # Unloaded

\* the document holds exactly NUM_LAYERS layers, each with its three numbers
WellFormed(f) ==
    /\ f.kind = "text"
    /\ f.doc.json
    /\ Len(f.doc.layers) = NUM_LAYERS
    /\ \A i \in 1..Len(f.doc.layers) : f.doc.layers[i].typed

\* C20: loading the settings always yields NUM_LAYERS layers: the layers of
\* the persisted document when it is well formed, and the built-in layers
\* when the file is missing, unreadable, not JSON, has another number of
\* layers or an ill typed layer.
C20_SettingsFallBackToBuiltIn ==
    [][LoadStep =>
        /\ Len(settings'.layers) = NUM_LAYERS
        /\ IF WellFormed(file)
           THEN \A i \in 1..NUM_LAYERS :
                    /\ settings'.layers[i].seed = file.doc.layers[i].seed
                    /\ settings'.layers[i].frequency = file.doc.layers[i].frequency
                    /\ settings'.layers[i].amplitude = file.doc.layers[i].amplitude
           ELSE settings' = BuiltIn]_vars

\* the built-in layers were loaded from a document with one layer too many
C20_Reached ==
    /\ settings = BuiltIn
    /\ edits = 0
    /\ file.kind = "text"
    /\ file.doc.json
    /\ Len(file.doc.layers) = NUM_LAYERS + 1
    /\ \A i \in 1..Len(file.doc.layers) : file.doc.layers[i].typed
    /\ file.doc.layers[1].seed # BuiltIn.layers[1].seed

\* the coordinates of the required set that the pass finds resident or
\* pending at a LOD other than the required one
stale_resident(req) ==
    {m \in map : known(m.entity) /\
        \E r \in req : r.coord = m.coord /\ r.lod # chunk_of(m.entity).lod}

stale_pending(req) ==
    {p \in pending : \E r \in req : r.coord = p.coord /\ r.lod # p.lod}

\* C24: a performed pass that finds a required coordinate resident or pending
\* at a LOD other than the required one removes the stale entry, despawning
\* the resident entity, and leaves the coordinate pending at the required
\* LOD and not resident.
C24_StaleLodReplaced ==
    [][PassStep =>
        \E req \in {required(player_chunk_of(observed_pos), view_width)} :
            /\ \A m \in stale_resident(req) :
                /\ m \notin map'
                /\ m.entity \in commands'.despawn
                /\ \A n \in map' : n.coord # m.coord
                /\ \E p \in pending' : p.coord = m.coord /\ p.coord \in {r.coord : r \in
                        {q \in req : q.lod = p.lod}}
            /\ \A p \in stale_pending(req) :
                /\ p \notin pending'
                /\ \A n \in map' : n.coord # p.coord
                /\ \E q \in pending' : q.coord = p.coord /\ q.lod # p.lod
                /\ \A q \in pending' : q.coord = p.coord =>
                        [coord |-> q.coord, lod |-> q.lod] \in req]_vars

\* a step of spawn_required_chunks, skipped or performed
SpawnStep == "spawn" \notin ran /\ "spawn" \in ran'

\* C25: when the observer's chunk is the one recorded by the last performed
\* pass, spawn_required_chunks dispatches no task, evicts nothing and leaves
\* the resident map, the pending map and the recorded chunk unchanged; a pass
\* that is performed records the observer's current chunk.
C25_UnchangedChunkSkipsPass ==
    [][SpawnStep =>
        IF last_chunk = {player_chunk_of(observed_pos)}
        THEN /\ map' = map
             /\ pending' = pending
             /\ pool' = pool
             /\ commands' = commands
             /\ last_chunk' = last_chunk
        ELSE last_chunk' = {player_chunk_of(observed_pos)}]_vars

\* a pass has been skipped while a finished task waits in the pending map,
\* and in an earlier frame a pass was performed and recorded the chunk
C25_Reached ==
    /\ lastOp = "skip"
    /\ last_chunk = {observer_chunk}
    /\ \E p \in pending : p.task \in finished
    /\ map # {}

\* the value the sampler of a layer, or the cliff sampler, gives a column
column_noise(t, name, n) ==
    get_noise_2d(samplers[sid(t.res.gen, name)],
                 world_of(t.coord[1], t.lod, grid_column(t.lod, n)[1]),
                 world_of(t.coord[3], t.lod, grid_column(t.lod, n)[2]), salt)

\* the integers beyond I32_MAX, as hi * 2^30 + lo with lo in 0..2^30 - 1
Wide(c) == [hi |-> c \div 1073741824, lo |-> c % 1073741824]

wide_add(w, c) ==
    [hi |-> w.hi + (c \div 1073741824) + ((w.lo + (c % 1073741824)) \div 1073741824),
     lo |-> (w.lo + (c % 1073741824)) % 1073741824]

\* clamp of an integer given as hi and lo, for bounds within 0..2^30 - 1
wide_clamp(w, lo, hi) ==
    IF w.hi > 0 THEN hi ELSE IF w.hi < 0 THEN lo ELSE Clamp(w.lo, lo, hi)

\* base 40 plus the first layer mapped to [0,1] times its amplitude, plus the
\* other layers times their amplitudes, plus |cliff| * 20, each as an integer
summed_height(t, n) ==
    wide_add(wide_add(wide_add(wide_add(wide_add(wide_add(Wide(BASE_HEIGHT),
        scale(column_noise(t, <<"layer", 1>>, n) + 10, t.res.amps[1], 40)),
        scale(column_noise(t, <<"layer", 2>>, n), t.res.amps[2], 20)),
        scale(column_noise(t, <<"layer", 3>>, n), t.res.amps[3], 20)),
        scale(column_noise(t, <<"layer", 4>>, n), t.res.amps[4], 20)),
        scale(column_noise(t, <<"layer", 5>>, n), t.res.amps[5], 20)),
        Trunc(Abs(column_noise(t, <<"cliff", 0>>, n)) * RIDGE_SCALE, 10))

\* C26: for every column and every noise configuration the height the
\* generator uses is base 40 plus the layer contributions plus the ridge
\* contribution, clamped into [1, MAX_HEIGHT - 1], and so never outside it
C26_HeightIsClampedSum ==
    \A k \in 1..Len(tasks) : \A n \in 1..Len(tasks[k].heights) :
        /\ tasks[k].heights[n] \in 1..(MAX_HEIGHT - 1)
        /\ tasks[k].heights[n] = wide_clamp(summed_height(tasks[k], n), 1, MAX_HEIGHT - 1)

\* the cave noise of the cell y of column n of a task's window
cave_noise(t, n, wy) ==
    get_noise_3d(samplers[sid(t.res.gen, <<"cave", 0>>)],
                 world_of(t.coord[1], t.lod, grid_column(t.lod, n)[1]), wy,
                 world_of(t.coord[3], t.lod, grid_column(t.lod, n)[2]), salt)

\* C27: in the terrain pass at LOD 1, in a column of height h, a cell at
\* world-Y y <= h is Empty when its cave noise exceeds 0.8 and otherwise Grass
\* when y = h, Dirt when y = h - 1 and Stone when y < h - 1; a cell with y > h
\* receives no block.
C27_TerrainCells ==
    \A k \in 1..Len(tasks) :
        (tasks[k].pc = "done" /\ tasks[k].lod = 1) =>
            \A n \in 1..tasks[k].cols : \A y \in window_ys(tasks[k].coord, 1, tasks[k].win) :
                LET wy == world_of(tasks[k].coord[2], 1, y)
                    h == tasks[k].heights[n]
                    b == block_at(tasks[k], grid_cell(tasks[k].lod, n, y))
                IN  IF wy > h \/ cave_noise(tasks[k], n, wy) > CARVE THEN b = "Empty"
                    ELSE IF wy = h THEN b = "Grass"
                    ELSE IF wy = h - 1 THEN b = "Dirt"
                    ELSE b = "Stone"

\* a LOD-1 task has finished a column that holds Grass, Dirt, Stone, a carved
\* cell below the height and an empty cell above it
C27_Reached ==
    \E k \in 1..Len(tasks) : \E n \in 1..tasks[k].cols :
        /\ tasks[k].pc = "done" /\ tasks[k].lod = 1
        /\ \E col \in {{c \in window_cells(tasks[k]) :
                            <<c[1], c[3]>> = grid_column(1, n)}} :
            /\ {"Grass", "Dirt", "Stone"} \subseteq {block_at(tasks[k], c) : c \in col}
            /\ \E c \in col :
                /\ world_of(tasks[k].coord[2], 1, c[2]) < tasks[k].heights[n]
                /\ block_at(tasks[k], c) = "Empty"
            /\ \E c \in col : world_of(tasks[k].coord[2], 1, c[2]) > tasks[k].heights[n]

\* C28: the disabled stone-above-ceiling branch has no effect: a cell, at
\* LOD 1 or LOD 2, that contains a level at or below the terrain height whose
\* cave noise does not exceed 0.8 is solid, whatever the cave noise of the
\* levels above the height.
C28_DisabledBranchHasNoEffect ==
    \A k \in 1..Len(tasks) :
        tasks[k].pc = "done" =>
            \A n \in 1..tasks[k].cols :
            \A y \in window_ys(tasks[k].coord, tasks[k].lod, tasks[k].win) :
                LET wy == world_of(tasks[k].coord[2], tasks[k].lod, y)
                IN (\E s \in wy..(wy + tasks[k].lod - 1) :
                        /\ s <= tasks[k].heights[n]
                        /\ cave_noise(tasks[k], n, s) <= CARVE)
                    => block_at(tasks[k], grid_cell(tasks[k].lod, n, y))
                            # "Empty"

\* the place of the column <<x, z>> in the loops
column_index(lod, x, z) == x + z * grid_n(lod) + 1

\* C29: decorations are placed only at LOD 1: the grid of a LOD-2 build holds
\* no Wood and no Leaf, and each of its solid cells lies in a column the
\* terrain pass has filled, at or below the terrain height of that column.
C29_NoDecorationsAtLod2 ==
    (build # NoBuild /\ build.t.lod = 2) =>
        \A c \in DOMAIN build.t.voxels :
            LET n == column_index(2, c[1], c[3])
            IN  /\ build.t.voxels[c] \notin {"Wood", "Leaf"}
                /\ n <= Len(build.t.heights)
                /\ world_of(build.t.coord[2], 2, c[2]) <= build.t.heights[n]

\* a LOD-2 build has filled its columns, among them one where the noise
\* calls for a boulder and one where it calls for a tree
C29_Reached ==
    /\ build # NoBuild /\ build.t.lod = 2 /\ build.t.pc = "done"
    /\ DOMAIN build.t.voxels # {}
    /\ \E n, m \in 1..build.t.cols :
        LET wx(i) == world_of(build.t.coord[1], 2, grid_column(2, i)[1])
            wz(i) == world_of(build.t.coord[3], 2, grid_column(2, i)[2])
        IN  /\ boulder_here(build, wx(n), wz(n), salt)
            /\ ~boulder_here(build, wx(m), wz(m), salt)
            /\ tree_here(build, wx(m), wz(m), salt)

\* C30: every index used on the voxel array and on the occupancy array
\* during generation and meshing lies inside the array, and a decoration
\* block is written only to a cell of the grid: a block aimed outside is
\* dropped. This holds for chunks of negative coordinates too.
C30_IndicesInRange ==
    build # NoBuild =>
        LET n == grid_n(build.t.lod)
            size == grid_size(build.t.lod)
        IN  /\ \A a \in build.touched :
                    IF a[1] = "voxels" THEN a[2] \in 0..(n * n * n - 1)
                    ELSE a[2] \in 0..(size * size - 1)
            /\ \A p \in build.stamped : \A a \in 1..3 : p[1][a] \in 0..(size + 1)
            /\ \A w \in build.dropped :
                    \E a \in 1..3 :
                        local_of(build.t.coord, build.t.lod, w)[a] \notin 0..(size + 1)

\* a column pass of a chunk of negative coordinates has written decoration
\* blocks, dropped others and used the occupancy array
C30_Reached ==
    /\ build # NoBuild
    /\ build.t.coord[1] < 0
    /\ build.stamped # {} /\ build.dropped # {}
    /\ \E a \in build.touched : a[1] = "occupancy"

\* C21: the mesher emits a face only between a solid voxel and an Empty
\* voxel: every cell under a quad is a solid voxel of the interior of the
\* extent, never a voxel of the one-voxel padding, and the voxel it faces
\* is Empty, never solid.
C21_FacesOnSolidEmptyBoundary ==
    (build # NoBuild /\ build.meshed) =>
        \A i \in 1..Len(build.quads) : \A c \in quad_cells(build.quads[i]) :
            /\ \A a \in 1..3 : c[a] \in 2..grid_size(build.t.lod)
            /\ block_at(build.t, c) # "Empty"
            /\ block_at(build.t, shift(c, build.quads[i].face.n,
                                       build.quads[i].face.n_sign)) = "Empty"

\* a grid was meshed in which two solid voxels of the interior touch and a
\* solid voxel of the padding touches a solid voxel of the interior
C21_Reached ==
    /\ build # NoBuild /\ build.meshed
    /\ build.quads # <<>>
    /\ {<<1, 2, 2>>, <<2, 2, 2>>, <<3, 2, 2>>} \subseteq DOMAIN build.t.voxels

\* C22: every quad taken from the buffer adds 4 positions, 4 normals, 4
\* colours and 6 indices: the three vertex buffers are of one length, 4 per
\* quad, the triangles are twice the quads, and every index is that of a
\* vertex of the buffer.
C22_BuffersAgree ==
    build # NoBuild =>
        /\ Len(build.positions) = 4 * build.emitted
        /\ Len(build.normals) = 4 * build.emitted
        /\ Len(build.colors) = 4 * build.emitted
        /\ Len(build.indices) = 3 * (2 * build.emitted)
        /\ \A i \in 1..Len(build.indices) :
                build.indices[i] \in 0..(Len(build.positions) - 1)

\* every quad of a buffer of several quads, one of them merged from
\* several faces, has been taken
C22_Reached ==
    /\ build # NoBuild /\ build.meshed
    /\ build.emitted = Len(build.quads)
    /\ build.emitted > 6
    /\ \E i \in 1..Len(build.quads) : build.quads[i].width > 1

\* C23: at LOD 1 and at LOD 2 every coordinate of every vertex lies in
\* lod..CHUNK_SIZE + lod.
C23_VerticesInChunk ==
    build # NoBuild =>
        \A i \in 1..Len(build.positions) : \A a \in 1..3 :
            build.positions[i][a] \in build.t.lod..(CHUNK_SIZE + build.t.lod)

\* a LOD-2 mesh has a vertex at each end of the range
C23_Reached ==
    /\ build # NoBuild /\ build.t.lod = 2
    /\ build.emitted = Len(build.quads)
    /\ \E i, j \in 1..Len(build.positions) :
        /\ build.positions[i][1] = 2
        /\ build.positions[j][1] = CHUNK_SIZE + 2

\* wx and wz of the column a build passes next
next_wx(b) == world_of(b.t.coord[1], b.t.lod, grid_column(b.t.lod, b.t.col)[1])

next_wz(b) == world_of(b.t.coord[3], b.t.lod, grid_column(b.t.lod, b.t.col)[2])

\* every solid voxel of a column that has an occupancy entry lies at or
\* below that entry
occupancy_covers(b) ==
    \A c \in DOMAIN b.t.voxels :
        (c[1] \in 1..grid_size(b.t.lod) /\ c[3] \in 1..grid_size(b.t.lod)) =>
            occupancy_at(b, (c[1] - 1) + (c[3] - 1) * grid_size(b.t.lod))
                >= world_of(b.t.coord[2], b.t.lod, c[2])

\* the noise calls for a tree at the column of world (wx, wz) and of the
\* given height, and a column of the trunk inside the chunk has an occupancy
\* above that height
trunk_blocked(b, wx, height, wz) ==
    /\ b.t.lod = 1
    /\ ~boulder_here(b, wx, wz, salt)
    /\ tree_here(b, wx, wz, salt)
    /\ \E tx, tz \in 0..(tree_of(b, wx, wz, salt).trunk_size - 1) :
        LET ox == wx + tx - b.t.coord[1] * CHUNK_SIZE
            oz == wz + tz - b.t.coord[3] * CHUNK_SIZE
        IN  /\ ox \in 0..(grid_size(1) - 1) /\ oz \in 0..(grid_size(1) - 1)
            /\ occupancy_at(b, ox + oz * grid_size(1)) > height

\* the Wood and Leaf voxels of a grid
timber(b) == {c \in DOMAIN b.t.voxels : b.t.voxels[c] \in {"Wood", "Leaf"}}

\* C31: the occupancy of a column is at least the world-Y of every solid
\* voxel placed so far in that column, terrain and decorations; and the pass
\* of a column where a tree is due, with a column of the trunk footprint
\* inside the chunk occupied above the terrain height of the tree's column,
\* places no tree: it writes no Wood and no Leaf voxel.
C31_OccupancyGuardsTrees ==
    [][build' # NoBuild =>
        /\ occupancy_covers(build')
        /\ (/\ build # NoBuild
            /\ build.t.pc # "done"
            /\ trunk_blocked(build, next_wx(build),
                             build'.t.heights[build.t.col], next_wz(build)))
            => (timber(build') = timber(build)
                /\ \A p \in build'.stamped : p[2] \notin {"Wood", "Leaf"})]_vars

\* a tree was due at the column just passed, a boulder or a tree placed
\* before stands in its footprint above its height, and nothing was written
C31_Reached ==
    /\ build # NoBuild /\ build.t.lod = 1 /\ build.t.col > 1 /\ ~build.meshed
    /\ build.quads = <<>>
    /\ build.stamped = {}
    /\ DOMAIN build.occupancy # {}
    /\ LET n == build.t.col - 1
           wx == world_of(build.t.coord[1], 1, grid_column(1, n)[1])
           wz == world_of(build.t.coord[3], 1, grid_column(1, n)[2])
       IN trunk_blocked(build, wx, build.t.heights[n], wz)

\* C32: the keys of the resident map and the keys of the pending map are
\* disjoint in every state: no coordinate is resident and pending at once,
\* whatever the LODs, so the insert of a completed task finds no entry of
\* its key in the resident map.
C32_ResidentPendingDisjoint ==
    {m.coord : m \in map} \cap {p.coord : p \in pending} = {}

\* completed tasks were promoted while other tasks are still pending, and a
\* later pass has run over the resident and the pending coordinates
C32_Reached ==
    /\ lastOp = "pass"
    /\ map # {}
    /\ pending # {}
    /\ dispatched # {}

\* C34: the first run of spawn_required_chunks in a session performs a full
\* pass and requests every coordinate of the required set, also in a session
\* entered after another one was torn down with the observer in the chunk
\* the last pass of that session recorded: the recorded chunk is reset on
\* entry.
C34_FirstTickPasses ==
    [][(SpawnStep /\ ticks = 0) =>
        /\ lastOp' = "pass"
        /\ dispatched' = {r.coord : r \in required(player_chunk_of(observed_pos),
                                                    view_width)}]_vars

\* the first pass of a second session has requested the required set, after
\* a session in which a pass was performed and a task completed
C34_Reached ==
    /\ observers = MaxCameras
    /\ done > 0
    /\ ticks = 0
    /\ lastOp = "pass"
    /\ Cardinality(pending) = (2 * view_width + 1) * (2 * view_width + 1) * MAX_CHUNKS_Y

\* C35: a pass performed with the horizontal observer chunk of the pass
\* before it (the observer has changed its vertical chunk only), no task
\* having completed or been promoted in between, dispatches no task and
\* leaves the resident map and the pending map unchanged.
C35_PassIdempotent ==
    [][(/\ PassStep
        /\ quiet
        /\ \E c \in last_chunk :
            /\ c[1] = player_chunk_of(observed_pos)[1]
            /\ c[3] = player_chunk_of(observed_pos)[3])
        => (dispatched' = {} /\ map' = map /\ pending' = pending)]_vars

\* the locks a task holds
held(k) == {h \in sampling : h[1] = k}

\* C36: a generation task holds at most one sampler lock at a time, so
\* tasks that share the samplers never deadlock: while a task is unfinished
\* some task can take a step; and every dispatched task comes to its end.
C36_OneLockNoDeadlock ==
    /\ [](\A k \in 1..Len(tasks) : Cardinality(held(k)) <= 1)
    /\ []((\E k \in 1..Len(tasks) : tasks[k].pc # "done")
            => \E k \in 1..Len(tasks) : ENABLED (task_lock(k) \/ task_sample(k)))
    /\ \A k \in 1..MaxTasks :
            (Len(tasks) >= k) ~> (Len(tasks) >= k /\ tasks[k].pc = "done")

\* two tasks are at the same sampler: one holds its lock, the other waits
C36_Reached ==
    /\ Len(tasks) = 2
    /\ held(1) # {}
    /\ held(2) = {}
    /\ tasks[2].pc # "done"
    /\ sampler_of(tasks[2]) \in {h[2] : h \in held(1)}

\* the resident coordinates with the LOD of their chunk entity
resident_lods ==
    {[coord |-> m.coord, lod |-> world[m.entity].lod] :
        m \in {n \in map : n.entity \in DOMAIN world}}

\* the pending map is empty and every coordinate within view_width of chunk
\* c, on every vertical layer, is resident at its required LOD
settled_at(c) ==
    /\ pending = {}
    /\ required(c, view_width) \subseteq resident_lods

\* C33: if the observer stays in one chunk and every dispatched task
\* completes, then eventually the pending map is empty and every coordinate
\* within view_width of the observer's chunk is resident at its required LOD.
C33_EventuallySettled ==
    \A x \in 0..SettleX :
        (<>[](player_chunk_of(observed_pos) = <<x, 0, 0>>))
            => <>settled_at(<<x, 0, 0>>)

\* the cells of the grid a task was followed through, index 0 of y included
grid_cells(t) ==
    {<<grid_column(t.lod, n)[1], y, grid_column(t.lod, n)[2]>> :
        n \in {m \in t.first..t.cols : (m - t.first) % t.stride = 0},
        y \in {v \in 0..(grid_size(t.lod) + 1) :
                world_of(t.coord[2], t.lod, v) \in t.win[1]..t.win[2]}}

\* the world voxel position of a cell of the grid
world_pos(t, cell) ==
    <<world_of(t.coord[1], t.lod, cell[1]), world_of(t.coord[2], t.lod, cell[2]),
      world_of(t.coord[3], t.lod, cell[3])>>

\* C37: the terrain block of a world voxel position is the same in the grid
\* of a chunk and in the grid of its neighbour at the same LOD, wherever both
\* grids contain the position, as an interior cell or as a skirt cell.
C37_SkirtHoldsNeighbourTerrain ==
    Len(tasks) = 2 =>
        \A a \in grid_cells(tasks[1]) : \A b \in grid_cells(tasks[2]) :
            world_pos(tasks[1], a) = world_pos(tasks[2], b)
                => block_at(tasks[1], a) = block_at(tasks[2], b)

====
